---- MODULE Spec2Model ----
(***************************************************************************)
(* A model of split/manifest_split.py: the computation of the set of repo   *)
(* projects needed to build a list of targets (create_split_manifest) and   *)
(* the helpers it is built from.                                            *)
(*                                                                          *)
(* Representation of strings.  A path string is modelled by the list of     *)
(* its '/'-delimited segments, i.e. by the value of str.split("/"):         *)
(*   "a/b/c" is <<"a","b","c">>,  "/a" is <<"","a">>,  "a/" is <<"a","">>,   *)
(*   "a//b" is <<"a","","b">>  and the empty string is <<"">>.              *)
(* The correspondence is one to one, so a set of path strings is a set of   *)
(* such lists.  Project names, module names and class tags are atoms.       *)
(***************************************************************************)
EXTENDS Integers, Sequences, FiniteSets, TLC

\* Python's None.  No string splits to the empty list, so <<>> is free.
None == <<>>

Last(s) == s[Len(s)]

Min(a, b) == IF a <= b THEN a ELSE b

\* The image of a Python list/sequence as a set.
Range(s) == {s[i] : i \in 1..Len(s)}

\* Some enumeration of a finite set as a list (Python iterates a set in an
\* order the program does not control).
RECURSIVE SetToSeq(_)
SetToSeq(S) ==
  IF S = {} THEN <<>>
  ELSE LET x == CHOOSE y \in S : TRUE IN <<x>> \o SetToSeq(S \ {x})

\* Pairs <<s, p>> of distinct non-empty segments of the model where segment
\* s starts with segment p, and where s ends with p.
SegmentPrefixes == {<<"generic_x86", "generic">>}
SegmentSuffixes == {<<"OLD_TEST_MAPPING", "TEST_MAPPING">>,
                    <<"sbin", "bin">>}

SegStartsWith(s, p) == p = "" \/ s = p \/ <<s, p>> \in SegmentPrefixes
SegEndsWith(s, p) == p = "" \/ s = p \/ <<s, p>> \in SegmentSuffixes

\* str.startswith(prefix): all but the last segment of the prefix are whole
\* segments of the path, the last one is a prefix of the path's segment.
startswith(path, prefix) ==
  /\ Len(path) >= Len(prefix)
  /\ \A i \in 1..(Len(prefix) - 1) : path[i] = prefix[i]
  /\ SegStartsWith(path[Len(prefix)], prefix[Len(prefix)])

\* str.endswith(suffix).
endswith(path, suffix) ==
  LET k == Len(suffix)
      n == Len(path)
  IN /\ n >= k
     /\ \A i \in 2..k : path[n - k + i] = suffix[i]
     /\ SegEndsWith(path[n - k + 1], suffix[1])

\* os.path.join(*parts) for parts without '/': a component is appended
\* after a separator unless the path so far is empty or already ends with
\* one, in which case it is appended directly.
RECURSIVE os_path_join(_)
os_path_join(parts) ==
  IF Len(parts) = 1 THEN <<parts[1]>>
  ELSE LET path == os_path_join(SubSeq(parts, 1, Len(parts) - 1))
           b == parts[Len(parts)]
       IN IF path = <<"">> \/ Last(path) = ""
            THEN [path EXCEPT ![Len(path)] = b]
            ELSE Append(path, b)

\* The loop of scan_repo_projects from prefix length index down to 1.
RECURSIVE scan_from(_, _, _)
scan_from(repo_projects, parts, index) ==
  IF index = 0 THEN None
  ELSE LET project_path == os_path_join(SubSeq(parts, 1, index))
       IN IF project_path \in DOMAIN repo_projects
            THEN project_path
            ELSE scan_from(repo_projects, parts, index - 1)

scan_repo_projects(repo_projects, input_path) ==
  scan_from(repo_projects, input_path, Len(input_path))

(***************************************************************************)
(* The inputs of a run.  They are empty until create_split_manifest is      *)
(* called with them, and never change afterwards.                           *)
(***************************************************************************)
VARIABLES
  targets,          \* the list of target names given on the command line
  config_files,     \* the config XML files, in order: [file, remove, add]
  repo_list,        \* the lines of `repo list`: a list of <<path, name>>
  module_info_json, \* module-info.json: module -> [path, class, dependencies]
  ninja_graph,      \* what `ninja -t inputs` lists for one node: node -> paths
  kati_stamp,       \* the makefile paths ckati_stamp_dump prints
  overlays,         \* the --overlay paths, in order
  files,            \* the file system: path -> "file", or the link's real path
  manifest_file     \* the manifest's top-level elements: a list of [tag, name]

(***************************************************************************)
(* The state of create_split_manifest.                                      *)
(***************************************************************************)
VARIABLES
  pc,               \* the statement the run is at
  raised,           \* the exception that ended the run, or "" for none
  remove_projects,  \* dict: project name -> list of config files
  add_projects,     \* dict: project name -> list of config files
  repo_projects,    \* dict: project path -> project name
  module_info,      \* the ModuleInfo instance (its four maps)
  input_projects,   \* the set of project names retained so far
  checked_projects, \* the projects whose modules were already expanded
  projects_to_check,\* input_projects - checked_projects, as last computed
  iteration,        \* the pass counter
  modules,          \* the module list collected by the current pass
  debug_info,       \* dict: project name -> DebugInfo
  split_manifest,   \* the written split manifest, None before it is written
  debug_written,    \* the JSON written to --debug-file, None before
  passes            \* history: per pass, its frontier and its module list

(***************************************************************************)
(* A single call of scan_repo_projects(repo_projects, input_path).          *)
(***************************************************************************)
VARIABLES
  scanned_path,     \* the argument of the call, None before the call
  scanned_project     \* what the call returned

scan_vars == <<scanned_path, scanned_project>>

(***************************************************************************)
(* A single call of get_ninja_inputs(ninja_binary, ninja_build_file,        *)
(* modules), on the variables modules and ninja_graph.                      *)
(***************************************************************************)
VARIABLES
  queried_shards,   \* the module lists of the ninja calls made, in order
  queried_inputs    \* what the call returned, None before the call

batch_vars == <<queried_shards, queried_inputs>>

(***************************************************************************)
(* build/sandbox/config.py: a Config and a call of its get_build_goals.     *)
(***************************************************************************)
VARIABLES
  config,           \* the root of the config XML: a list of target elements
  _build_config_map,\* Config._build_config_map, None before __init__
  build_target,     \* the argument build_target of get_build_goals, "" before
  contexts,         \* the argument contexts: None, or <<the set given>>
  build_goals       \* what get_build_goals returned

goals_vars == <<config, _build_config_map, build_target, contexts, build_goals>>

(***************************************************************************)
(* build/sandbox/rbe.py: the table of defaults, the environment of the      *)
(* process and a call of environ().  A variable name is the list of its     *)
(* parts between underscores (RBE_DIR is <<"RBE", "DIR">>).                 *)
(***************************************************************************)
VARIABLES
  _RBE_ENV,         \* the defaults, made when the module is imported
  os_environ,       \* os.environ: name -> value
  env               \* what environ() returned, None before the call

rbe_vars == <<_RBE_ENV, os_environ, env>>

\* The variables that belong to no run of create_split_manifest.
call_vars == <<scan_vars, batch_vars, goals_vars, rbe_vars>>

inputs == <<targets, config_files, repo_list, module_info_json, ninja_graph,
            kati_stamp, overlays, files, manifest_file>>

vars == <<targets, config_files, repo_list, module_info_json, ninja_graph,
          kati_stamp, overlays, files, manifest_file,
          pc, raised, remove_projects, add_projects, repo_projects,
          module_info, input_projects, checked_projects, projects_to_check,
          iteration, modules, debug_info, split_manifest, debug_written,
          passes, scanned_path, scanned_project,
          queried_shards, queried_inputs,
          config, _build_config_map, build_target, contexts, build_goals,
          _RBE_ENV, os_environ, env>>

(***************************************************************************)
(* read_config and the loop that merges the config files (lines 427-436).   *)
(***************************************************************************)
\* dict.setdefault(project, []).append(config_file) over the files in order:
\* each project maps to the files that name it, in the order of the files.
RECURSIVE files_naming(_, _, _)
files_naming(configs, field, project) ==
  IF configs = <<>> THEN <<>>
  ELSE (IF project \in (configs[1])[field] THEN <<configs[1].file>> ELSE <<>>)
       \o files_naming(Tail(configs), field, project)

read_configs(configs, field) ==
  [project \in UNION {(configs[i])[field] : i \in 1..Len(configs)} |->
     files_naming(configs, field, project)]

(***************************************************************************)
(* get_repo_projects: dict() of the <<path, name>> lines, a later line      *)
(* replacing an earlier one with the same path.                             *)
(***************************************************************************)
get_repo_projects(lines) ==
  [path \in {lines[i][1] : i \in 1..Len(lines)} |->
     LET last == CHOOSE i \in 1..Len(lines) :
                   /\ lines[i][1] = path
                   /\ \A j \in (i + 1)..Len(lines) : lines[j][1] # path
     IN lines[last][2]]

(***************************************************************************)
(* ModuleInfo.__init__                                                      *)
(***************************************************************************)
\* The raw dependency strings matching _JAVA_LIB_PATTERN, with group(1).
_JAVA_LIB_PATTERN ==
  [raw_dep \in
     {"out/target/common/obj/JAVA_LIBRARIES/libhdr_intermediates/classes-header.jar"}
   |-> "libhdr"]

dep_from_raw_dep(raw_dep) ==
  IF raw_dep \in DOMAIN _JAVA_LIB_PATTERN THEN _JAVA_LIB_PATTERN[raw_dep]
  ELSE raw_dep

\* module_has_valid_path had it not set the modules under out/ aside.
module_has_path(json, module) == json[module].path # <<>>

\* "path" is the module's path list; a missing key is the empty list.
module_has_valid_path(json, module) ==
  /\ json[module].path # <<>>
  /\ ~startswith(json[module].path[1], <<"out", "">>)

module_paths(json) ==
  [module \in {m \in DOMAIN json : module_has_valid_path(json, m)} |->
     json[module].path[1]]

module_project_paths(json, projects) ==
  [module \in DOMAIN module_paths(json) |->
     scan_repo_projects(projects, module_paths(json)[module])]

\* `not project_path`: None or the empty string.
ModuleInfoRaises(json, projects) ==
  \E module \in DOMAIN module_paths(json) :
    module_project_paths(json, projects)[module] \in {None, <<"">>}

ModuleInfo(json, projects) ==
  LET mpp == module_project_paths(json, projects)
      module_project == [module \in DOMAIN mpp |-> projects[mpp[module]]]
  IN [project_modules |->
        [project \in {module_project[m] : m \in DOMAIN mpp} |->
           {m \in DOMAIN mpp : module_project[m] = project}],
      module_project |-> module_project,
      module_class |-> [module \in DOMAIN json |-> json[module].class],
      module_deps |->
        [module \in DOMAIN json |->
           {dep_from_raw_dep(d) : d \in json[module].dependencies}]]

(***************************************************************************)
(* get_ninja_inputs                                                         *)
(***************************************************************************)
NINJA_SHARD_LIMIT == 20000

\* One `ninja -t inputs` call: the inputs of the shard's nodes, as the lines
\* of the output split at "\n"; an empty output splits to one empty line.
ninja_inputs_lines(modules_shard) ==
  LET out == UNION {ninja_graph[m] : m \in Range(modules_shard)}
  IN IF out = {} THEN {<<"">>} ELSE out

\* range(0, len(modules), NINJA_SHARD_LIMIT) had its stop been the last
\* index: a list of one module more than full shards loses that module.
RECURSIVE modules_shards_to_last_index(_, _)
modules_shards_to_last_index(module_list, i) ==
  IF i >= Len(module_list) - 1 THEN <<>>
  ELSE <<SubSeq(module_list, i + 1,
                Min(i + NINJA_SHARD_LIMIT, Len(module_list)))>>
       \o modules_shards_to_last_index(module_list, i + NINJA_SHARD_LIMIT)

\* Lines 208-209: modules[i:i + NINJA_SHARD_LIMIT] for i from `i` on in
\* steps of NINJA_SHARD_LIMIT, in order.
RECURSIVE modules_shards(_, _)
modules_shards(module_list, i) ==
  IF i >= Len(module_list) THEN <<>>
  ELSE <<SubSeq(module_list, i + 1,
                Min(i + NINJA_SHARD_LIMIT, Len(module_list)))>>
       \o modules_shards(module_list, i + NINJA_SHARD_LIMIT)

\* Lines 206-218: the union of the lines of one ninja call per shard.
ninja_shards(module_list, i) ==
  UNION {ninja_inputs_lines(modules_shard) :
           modules_shard \in Range(modules_shards(module_list, i))}

\* input_allowed had it looked for test_mapping at the head of the list only.
input_allowed_at_head(path, module_list) ==
  /\ ~(/\ endswith(path, <<"TEST_MAPPING">>)
       /\ (module_list = <<>> \/ Head(module_list) # "test_mapping"))
  /\ ~endswith(path, <<"MODULE_LICENSE_GPL">>)
  /\ path # <<"">>

input_allowed(path, module_list) ==
  /\ ~(endswith(path, <<"TEST_MAPPING">>) /\ "test_mapping" \notin Range(module_list))
  /\ ~endswith(path, <<"MODULE_LICENSE_GPL">>)
  /\ path # <<"">>

get_ninja_inputs(module_list) ==
  {path \in ninja_shards(module_list, 0) : input_allowed(path, module_list)}

(***************************************************************************)
(* get_input_projects                                                       *)
(***************************************************************************)
\* The paths that are looked up: not under out/ and not absolute.
scanned_inputs(paths) ==
  {input_path \in paths :
     /\ ~startswith(input_path, <<"out", "">>)
     /\ ~startswith(input_path, <<"", "">>)}

\* dict: project name -> the input paths found in that project.
get_input_projects(projects, paths) ==
  LET found == {scan_repo_projects(projects, p) : p \in scanned_inputs(paths)}
                 \ {None}
  IN [name \in {projects[project_path] : project_path \in found} |->
        {p \in scanned_inputs(paths) :
           /\ scan_repo_projects(projects, p) # None
           /\ projects[scan_repo_projects(projects, p)] = name}]

(***************************************************************************)
(* get_kati_makefiles                                                       *)
(***************************************************************************)
banned_prefixes == {<<"out", "">>, <<"device", "amlogic">>, <<"device", "generic">>,
                    <<"device", "google">>, <<"device", "linaro">>,
                    <<"device", "sample">>}
banned_suffixes == {<<"Android.mk">>, <<"bin", "ckati">>}

is_product_makefile(makefile) ==
  /\ \A p \in banned_prefixes : ~startswith(makefile, p)
  /\ \A x \in banned_suffixes : ~endswith(makefile, x)

\* os.path.normpath: empty and "." components are dropped, ".." takes back
\* the component before it, a leading "/" is kept, nothing left is ".".
RECURSIVE normpath_comps(_, _, _)
normpath_comps(comps, new_comps, initial_slash) ==
  IF comps = <<>> THEN new_comps
  ELSE LET comp == Head(comps)
           next ==
             IF comp \in {"", "."} THEN new_comps
             ELSE IF \/ comp # ".."
                     \/ (~initial_slash /\ new_comps = <<>>)
                     \/ (new_comps # <<>> /\ Last(new_comps) = "..")
               THEN Append(new_comps, comp)
             ELSE IF new_comps # <<>>
               THEN SubSeq(new_comps, 1, Len(new_comps) - 1)
             ELSE new_comps
       IN normpath_comps(Tail(comps), next, initial_slash)

normpath(path) ==
  LET initial_slash == Len(path) >= 2 /\ path[1] = ""
      comps == normpath_comps(path, <<>>, initial_slash)
  IN IF initial_slash THEN <<"">> \o (IF comps = <<>> THEN <<"">> ELSE comps)
     ELSE IF comps = <<>> THEN <<".">> ELSE comps

\* os.path.join(overlay, makefile) of two strings.
join_overlay(overlay, makefile) ==
  IF Len(makefile) >= 2 /\ makefile[1] = "" THEN makefile
  ELSE IF overlay = <<"">> THEN makefile
  ELSE IF Last(overlay) = ""
    THEN SubSeq(overlay, 1, Len(overlay) - 1) \o makefile
  ELSE overlay \o makefile

\* makefile[len(overlay):] when makefile.startswith(overlay): what is left of
\* the segment the overlay ends in, then the remaining segments.
SegmentRest(s, p) ==
  IF p = "" THEN s
  ELSE IF s = p THEN ""
  ELSE IF s = "generic_x86" /\ p = "generic" THEN "_x86"
  ELSE s

RECURSIVE strip_overlay_from(_, _, _)
strip_overlay_from(overlay_list, i, makefile) ==
  IF i > Len(overlay_list) THEN makefile
  ELSE LET overlay == overlay_list[i]
           k == Len(overlay)
       IN IF startswith(makefile, overlay)
            THEN <<SegmentRest(makefile[k], overlay[k])>>
                   \o SubSeq(makefile, k + 1, Len(makefile))
            ELSE strip_overlay_from(overlay_list, i + 1, makefile)

strip_overlay(overlay_list, makefile) ==
  strip_overlay_from(overlay_list, 1, makefile)

\* os.path.exists, os.path.islink and os.path.relpath(os.path.realpath(.)).
\* The current directory "." always exists.
path_exists(fs, path) == path \in DOMAIN fs \/ path = <<".">>
path_islink(fs, path) == path \in DOMAIN fs /\ fs[path].islink
path_realpath(fs, path) == fs[path].realpath

\* The search loop of lines 292-296: the first of "" and the overlays under
\* which the makefile exists, else the makefile as it is.
RECURSIVE find_makefile(_, _, _, _)
find_makefile(fs, search, i, makefile) ==
  IF i > Len(search) THEN makefile
  ELSE IF path_exists(fs, join_overlay(search[i], makefile))
    THEN join_overlay(search[i], makefile)
  ELSE find_makefile(fs, search, i + 1, makefile)

\* get_kati_makefiles without lines 298-300: a makefile that is nowhere is
\* added like one that was found.
get_kati_makefiles_with_unknown(stamp_lines, overlay_list, fs) ==
  LET makefiles == IF stamp_lines = {} THEN {<<"">>} ELSE stamp_lines
      product_makefiles ==
        {normpath(path) : path \in {m \in makefiles : is_product_makefile(m)}}
      located ==
        {find_makefile(fs, <<(<<"">>)>> \o overlay_list, 1, makefile) :
           makefile \in product_makefiles}
  IN {strip_overlay(overlay_list, makefile) : makefile \in located}
     \cup {strip_overlay(overlay_list, path_realpath(fs, makefile)) :
             makefile \in {m \in located : path_islink(fs, m)}}

get_kati_makefiles(stamp_lines, overlay_list, fs) ==
  LET makefiles == IF stamp_lines = {} THEN {<<"">>} ELSE stamp_lines
      product_makefiles ==
        {normpath(path) : path \in {m \in makefiles : is_product_makefile(m)}}
      located ==
        {find_makefile(fs, <<(<<"">>)>> \o overlay_list, 1, makefile) :
           makefile \in product_makefiles}
      known == {makefile \in located : path_exists(fs, makefile)}
  IN {strip_overlay(overlay_list, makefile) : makefile \in known}
     \cup {strip_overlay(overlay_list, path_realpath(fs, makefile)) :
             makefile \in {m \in known : path_islink(fs, m)}}

(***************************************************************************)
(* update_manifest and create_manifest_sha1_element                         *)
(***************************************************************************)
\* update_manifest had it removed the children while iterating over the
\* root itself: the child after a removed one is skipped, and stays.
RECURSIVE remove_while_iterating(_, _)
remove_while_iterating(children, projects_to_keep) ==
  IF children = <<>> THEN <<>>
  ELSE IF Head(children).tag = "project"
            /\ Head(children).name \notin projects_to_keep
         THEN IF Len(children) = 1 THEN <<>>
              ELSE <<children[2]>>
                   \o remove_while_iterating(SubSeq(children, 3, Len(children)),
                                             projects_to_keep)
         ELSE <<Head(children)>>
              \o remove_while_iterating(Tail(children), projects_to_keep)

update_manifest_while_iterating(manifest, projects, to_remove) ==
  remove_while_iterating(manifest, projects \ to_remove)

\* update_manifest had it looked at the children of every tag.
update_manifest_of_any_tag(manifest, projects, to_remove) ==
  LET kept(child) == child.name \in projects \ to_remove
  IN SelectSeq(manifest, kept)

\* update_manifest had it kept every project of the input set, removed or
\* not.
update_manifest_ignoring_removals(manifest, projects, to_remove) ==
  LET kept(child) == child.tag # "project" \/ child.name \in projects
  IN SelectSeq(manifest, kept)

\* A manifest is the list of the root's children: [tag, name, value]; value
\* is the rest of the element (its other attributes and its children), None
\* when there is none; the value of a hash element is its digest.
update_manifest(manifest, projects, to_remove) ==
  LET projects_to_keep == projects \ to_remove
      kept(child) == child.tag # "project" \/ child.name \in projects_to_keep
  IN SelectSeq(manifest, kept)

\* The sha1 of the serialized tree is modelled by the tree itself: equal
\* digests are equal trees.
create_manifest_sha1_element(manifest, name) ==
  [tag |-> "hash", name |-> name, value |-> manifest]

\* The write had it made the "original" element after update_manifest, which
\* changes the parsed tree in place.
write_original_after_filtering(manifest, projects, to_remove) ==
  LET filtered ==
        SelectSeq(manifest,
                  LAMBDA child : child.tag # "project"
                                 \/ child.name \in projects \ to_remove)
      with_original ==
        Append(filtered, [tag |-> "hash", name |-> "original", value |-> filtered])
  IN Append(with_original,
            [tag |-> "hash", name |-> "self", value |-> with_original])

\* The write had it made the "self" element before it appends the
\* "original" element.
write_self_before_original(manifest, projects, to_remove) ==
  LET original_sha1 == create_manifest_sha1_element(manifest, "original")
      filtered == update_manifest(manifest, projects, to_remove)
      self_sha1 == create_manifest_sha1_element(filtered, "self")
  IN Append(Append(filtered, original_sha1), self_sha1)

\* Lines 521-527: the tree that is written.  The "original" element is made
\* from the manifest as parsed, the manifest is filtered, the "original"
\* element is appended, and the "self" element is made from that tree and
\* appended to it.
write_split_manifest(manifest, projects, to_remove) ==
  LET original_sha1 == create_manifest_sha1_element(manifest, "original")
      filtered == update_manifest(manifest, projects, to_remove)
      with_original == Append(filtered, original_sha1)
  IN Append(with_original,
            create_manifest_sha1_element(with_original, "self"))

(***************************************************************************)
(* DebugInfo                                                                *)
(***************************************************************************)
DebugInfo ==
  [direct_input |-> FALSE, adjacent_input |-> FALSE, deps_input |-> FALSE,
   kati_makefiles |-> {}, manual_add_configs |-> <<>>,
   manual_remove_configs |-> <<>>]

\* The debug info had it left out the header library dependencies.
debug_set_but_deps(debug, field, values) ==
  IF field = "deps_input" THEN debug
  ELSE [project \in DOMAIN debug \cup DOMAIN values |->
          LET info == IF project \in DOMAIN debug THEN debug[project]
                      ELSE DebugInfo
          IN IF project \in DOMAIN values
               THEN [info EXCEPT ![field] = values[project]]
               ELSE info]

\* The records had they been made anew at every step that sets a field.
debug_set_anew(debug, field, values) ==
  [project \in DOMAIN values |-> [DebugInfo EXCEPT ![field] = values[project]]]

\* debug_info.setdefault(project, DebugInfo()).<field> = values[project],
\* for every project of the dict `values`.
debug_set(debug, field, values) ==
  [project \in DOMAIN debug \cup DOMAIN values |->
     LET info == IF project \in DOMAIN debug THEN debug[project] ELSE DebugInfo
     IN IF project \in DOMAIN values
          THEN [info EXCEPT ![field] = values[project]]
          ELSE info]

(***************************************************************************)
(* The closure loop of create_split_manifest (lines 477-517), one pass.     *)
(***************************************************************************)
\* Lines 491-497: the modules of the projects checked in this pass.
pass_modules(info, to_check) ==
  UNION {info.project_modules[project] :
           project \in to_check \cap DOMAIN info.project_modules}

\* The orders in which a set can be iterated.
Orders(S) == {order \in [1..Cardinality(S) -> S] : Range(order) = S}

\* Lines 492-496: the lists `modules` that the nested loops can build when
\* the projects are visited in the order of project_list; a project's
\* modules are a set (line 176) and come in any order, project by project.
RECURSIVE modules_in_order(_, _)
modules_in_order(info, project_list) ==
  IF project_list = <<>> THEN {<<>>}
  ELSE LET project == Head(project_list)
           of_project == IF project \in DOMAIN info.project_modules
                           THEN Orders(info.project_modules[project])
                           ELSE {<<>>}
       IN {of_head \o of_tail :
             of_head \in of_project,
             of_tail \in modules_in_order(info, Tail(project_list))}

\* Lines 492-496 for every order of iteration of projects_to_check.
pass_module_lists(info, to_check) ==
  UNION {modules_in_order(info, project_list) :
           project_list \in Orders(to_check)}

\* process_deps had it looked for the dependencies of the module's own class.
same_class_deps(info, module) ==
  {d \in info.module_deps[module] :
     /\ d \in DOMAIN info.module_class
     /\ info.module_class[d] = info.module_class[module]}

\* process_deps, lines 483-486: the HEADER_LIBRARIES dependencies of a module.
header_deps(info, module) ==
  {d \in info.module_deps[module] :
     /\ d \in DOMAIN info.module_class
     /\ info.module_class[d] = "HEADER_LIBRARIES"}

\* Line 487 raises KeyError when the dependency has no project.
process_deps_raises(info, module_set) ==
  \E module \in module_set : \E d \in header_deps(info, module) :
    d \notin DOMAIN info.module_project

\* The pass had it skipped the header library dependencies.
no_deps_additions(info, module_set, retained) == {}

\* Lines 487-489.
deps_additions(info, module_set, retained) ==
  {info.module_project[d] :
     d \in UNION {header_deps(info, module) : module \in module_set}} \ retained

\* The pass had it skipped the inputs of the adjacent modules.
no_adjacent_module_additions(projects, module_list) == {}

\* Lines 507-509.
adjacent_module_additions(projects, module_list) ==
  DOMAIN get_input_projects(projects, get_ninja_inputs(module_list))

\* The union had it been an assignment of the additions.
only_additions(retained, additions) == additions

\* Lines 501 and 512: input_projects = input_projects.union(additions).
with_additions(retained, additions) == retained \cup additions

\* The frontier had it been the whole retained set.
to_check_again(retained, checked) == retained

\* Lines 472 and 517: input_projects.difference(checked_projects).
to_check(retained, checked) == retained \ checked

\* The pass had it kept only its own projects as checked.
mark_checked_of_pass(info, checked, frontier) == frontier

\* The pass had it marked a project as checked only when it has modules.
mark_checked_with_modules(info, checked, frontier) ==
  checked \cup (frontier \cap DOMAIN info.project_modules)

\* Lines 491-494: every project to check is marked as checked, with or
\* without modules.
mark_checked(info, checked, frontier) == checked \cup frontier

\* The overrides had the removals been applied before the additions.
seed_overrides_remove_first(retained, add, remove) ==
  (retained \ remove) \cup add

\* Lines 461-468: the manual additions, then the manual removals.
seed_overrides(retained, add, remove) == (retained \cup add) \ remove

(***************************************************************************)
(* The inputs the model runs on.                                            *)
(***************************************************************************)
\* The most <<node, input path>> pairs in a ninja graph.
MaxNinjaEdges == 2

\* The pass counter is not taken beyond MaxPasses.  The loop of the program
\* ends long before (PassesWithinCap); the cap only keeps the state space
\* finite when the loop is changed into one that does not end.
MaxPasses == 6

PX == <<"vendor", "x">>
PH == <<"vendor", "hdr">>
PT == <<"vendor", "t">>

RepoList2 == << <<PX, "vendor/x">>, <<PH, "vendor/hdr">> >>
RepoList3 == RepoList2 \o << <<PT, "platform/t">> >>

Nodes == {"droid", "foo", "libhdr", "test_mapping"}

\* The <<node, input path>> pairs a ninja graph of the model is made of.
NinjaEdges ==
  {<<"droid", <<"vendor", "x", "Android.bp">> >>,
   <<"droid", <<"out", "tmp">> >>,
   <<"droid", <<"vendor", "hdr", "TEST_MAPPING">> >>,
   <<"foo", <<"vendor", "hdr", "TEST_MAPPING">> >>,
   <<"foo", <<"vendor", "t", "t.c">> >>,
   <<"foo", <<"", "usr", "include", "stdio.h">> >>,
   <<"libhdr", <<"vendor", "t", "MODULE_LICENSE_GPL">> >>,
   <<"libhdr", <<"vendor", "t", "t.c">> >>,
   <<"test_mapping", <<"vendor", "x", "x.c">> >>}

GraphOf(edges) == [n \in Nodes |-> {e[2] : e \in {d \in edges : d[1] = n}}]

NinjaGraphs ==
  {GraphOf(edges) : edges \in {E \in SUBSET NinjaEdges :
                                 Cardinality(E) <= MaxNinjaEdges}}

JavaHeaderJar ==
  "out/target/common/obj/JAVA_LIBRARIES/libhdr_intermediates/classes-header.jar"

\* libhdr's source path and class: in vendor/hdr, under out/ (no valid
\* path, so no project) or in no known project.
LibhdrChoices ==
  {<< <<PH>>, "HEADER_LIBRARIES">>, << <<PH>>, "STATIC_LIBRARIES">>,
   << << <<"out", "soong", "gen">> >>, "HEADER_LIBRARIES">>,
   << << <<"external", "z">> >>, "HEADER_LIBRARIES">>}

ModuleInfoJsons ==
  {[m \in {"foo", "libhdr", "test_mapping"} |->
      CASE m = "foo" ->
             [path |-> <<PX>>, class |-> "APPS", dependencies |-> deps]
        [] m = "libhdr" ->
             [path |-> h[1], class |-> h[2], dependencies |-> {}]
        [] OTHER ->
             [path |-> <<PT>>, class |-> "FAKE", dependencies |-> {}]] :
     deps \in {{}, {"libhdr"}, {JavaHeaderJar, "libmissing"}},
     h \in LibhdrChoices}

ConfigFiles ==
  {<< [file |-> "default_config.xml", remove |-> {}, add |-> a1],
      [file |-> "my_config.xml", remove |-> r, add |-> a2] >> :
     a1 \in {{}, {"vendor/x"}},
     a2 \in {{}, {"platform/t"}, {"ghost"}},
     r \in {{}, {"vendor/x"}, {"vendor/hdr"}, {"platform/t"}}}

PlainFile == [islink |-> FALSE, realpath |-> None]

Files ==
  [p \in {<<"vendor", "hdr", "product.mk">>} |-> PlainFile]

KatiStamps ==
  {{<<"prebuilts", "bin", "ckati">>, <<"vendor", "x", "Android.mk">>},
   {<<"prebuilts", "bin", "ckati">>, <<"vendor", "hdr", "product.mk">>,
    <<"vendor", "t", "missing.mk">>}}

Project(name) == [tag |-> "project", name |-> name, value |-> None]

Manifest ==
  << [tag |-> "remote", name |-> "aosp", value |-> None],
     Project("vendor/x"), Project("vendor/hdr"), Project("platform/t"),
     Project("platform/unused") >>

\* A manifest that names vendor/x twice.
ManifestWithDuplicates ==
  << [tag |-> "remote", name |-> "aosp", value |-> None],
     Project("vendor/x"), Project("vendor/hdr"), Project("vendor/x"),
     Project("platform/t") >>

\* A manifest written by an earlier split: it ends with two hash elements.
ManifestOfEarlierSplit ==
  write_split_manifest(Manifest, {"vendor/x", "vendor/hdr", "platform/t"}, {})

\* A manifest with a project nested in the project vendor/x, and an element
\* that is no project but carries a project's name.
ManifestWithNesting ==
  << [tag |-> "default", name |-> "", value |-> None],
     [tag |-> "project", name |-> "vendor/x",
      value |-> <<Project("platform/unused")>>],
     Project("platform/unused"),
     [tag |-> "remove-project", name |-> "vendor/hdr", value |-> None],
     Project("vendor/hdr") >>

Manifests ==
  {<<>>, ManifestWithDuplicates, ManifestOfEarlierSplit, ManifestWithNesting}

\* The inputs of one call, as a record.
Call(t, c, r, j, g, k) ==
  [targets |-> t, config_files |-> c, repo_list |-> r, module_info_json |-> j,
   ninja_graph |-> g, kati_stamp |-> k, overlays |-> <<>>, files |-> Files,
   manifest_file |-> Manifest]

\* The closure over the three-project tree.
ClosureInputs ==
  {Call(t, c, RepoList3, j, g, k) :
     t \in {<<"droid">>, <<"droid", "test_mapping">>},
     c \in ConfigFiles, j \in ModuleInfoJsons, g \in NinjaGraphs,
     k \in KatiStamps}

\* An empty `repo list` file, and modules without a source path.
EmptyIndexInputs ==
  {Call(<<"droid">>, c, <<>>, j, g, {<<"prebuilts", "bin", "ckati">>}) :
     c \in ConfigFiles,
     j \in {<<>>,
            [m \in {"foo"} |-> [path |-> <<>>, class |-> "APPS",
                                dependencies |-> {"libhdr"}]]},
     g \in NinjaGraphs}

\* The end-to-end example: target foo in vendor/x with the header library
\* libhdr in vendor/hdr, whose inputs are its own.
EndToEndInputs ==
  {Call(<<"foo">>,
        << [file |-> "default_config.xml", remove |-> {}, add |-> {}] >>,
        RepoList2,
        [m \in {"foo", "libhdr"} |->
           IF m = "foo"
             THEN [path |-> <<PX>>, class |-> "APPS", dependencies |-> {"libhdr"}]
             ELSE [path |-> <<PH>>, class |-> "HEADER_LIBRARIES",
                   dependencies |-> {}]],
        [n \in Nodes |->
           CASE n = "foo" -> {<<"vendor", "x", "Android.bp">>, <<"out", "tmp">>}
             [] n = "libhdr" -> h
             [] OTHER -> {}],
        {<<"prebuilts", "bin", "ckati">>}) :
     h \in {{}, {<<"vendor", "hdr", "hdr.h">>}}}

\* The manifests: droid in vendor/x, foo of vendor/x with the header library
\* libhdr of vendor/hdr and, in some, an input in platform/t.
ManifestInputs ==
  {[Call(<<"droid">>, c, RepoList3,
         [m \in {"foo", "libhdr"} |->
            IF m = "foo"
              THEN [path |-> <<PX>>, class |-> "APPS", dependencies |-> {"libhdr"}]
              ELSE [path |-> <<PH>>, class |-> "HEADER_LIBRARIES",
                    dependencies |-> {}]],
         GraphOf({<<"droid", <<"vendor", "x", "Android.bp">> >>} \cup foo),
         {<<"prebuilts", "bin", "ckati">>})
      EXCEPT !.manifest_file = xml] :
     c \in ConfigFiles, xml \in Manifests,
     foo \in {{}, {<<"foo", <<"vendor", "t", "t.c">> >>}}}

\* A tree whose makefile vendor/hdr/link.mk is a symbolic link to a file of
\* vendor/x.
FilesWithLink ==
  [p \in {<<"vendor", "hdr", "product.mk">>, <<"vendor", "hdr", "link.mk">>,
          <<"vendor", "x", "real.mk">>} |->
     IF p = <<"vendor", "hdr", "link.mk">>
       THEN [islink |-> TRUE, realpath |-> <<"vendor", "x", "real.mk">>]
       ELSE PlainFile]

\* A tree whose overlay root overlays/o1 holds the makefile
\* vendor/hdr/link.mk, a symbolic link to the overlay's vendor/t/real.mk.
FilesWithOverlay ==
  [p \in {<<"vendor", "hdr", "product.mk">>,
          <<"overlays", "o1", "vendor", "hdr", "link.mk">>,
          <<"overlays", "o1", "vendor", "t", "real.mk">>} |->
     IF p = <<"overlays", "o1", "vendor", "hdr", "link.mk">>
       THEN [islink |-> TRUE,
             realpath |-> <<"overlays", "o1", "vendor", "t", "real.mk">>]
       ELSE PlainFile]

\* The values of --overlay: none, overlays/o1/ and overlays/o1, and
\* overlays/o1/ after an overlay root that holds nothing.
OverlayLists ==
  {<<>>, << <<"overlays", "o1", "">> >>, << <<"overlays", "o1">> >>,
   << <<"overlays", "o0", "">>, <<"overlays", "o1", "">> >>}

\* Stamp files that name the link, by its path in the tree or under the
\* overlay, and a makefile that is nowhere.
MakefileStamps ==
  {{<<"prebuilts", "bin", "ckati">>, <<"vendor", "hdr", "link.mk">>},
   {<<"overlays", "o1", "vendor", "hdr", "link.mk">>},
   {<<"vendor", "hdr", "link.mk">>, <<"vendor", "t", "missing.mk">>,
    <<"vendor", "hdr", "product.mk">>},
   {<<"vendor", "t", "missing.mk">>}}

\* The product makefiles: a target with no input in the tree, so that the
\* projects of a run are those of its makefiles and of its config files.
MakefileInputs ==
  {[Call(<<"droid">>, c, RepoList3, <<>>,
         GraphOf({<<"droid", <<"out", "tmp">> >>}), k)
      EXCEPT !.overlays = o, !.files = fs] :
     c \in {cfg \in ConfigFiles : cfg[1].add = {} /\ cfg[2].add = {}},
     k \in MakefileStamps, o \in OverlayLists,
     fs \in {FilesWithLink, FilesWithOverlay}}

\* The inputs create_split_manifest may be called with.
Inputs ==
  ClosureInputs \cup EmptyIndexInputs \cup EndToEndInputs \cup ManifestInputs
    \cup MakefileInputs

\* create_split_manifest is called with the inputs `call`.
CalledWith(call) ==
  /\ targets' = call.targets
  /\ config_files' = call.config_files
  /\ repo_list' = call.repo_list
  /\ module_info_json' = call.module_info_json
  /\ ninja_graph' = call.ninja_graph
  /\ kati_stamp' = call.kati_stamp
  /\ overlays' = call.overlays
  /\ files' = call.files
  /\ manifest_file' = call.manifest_file

\* The state create_split_manifest starts in.
Start ==
  /\ raised = ""
  /\ remove_projects = <<>>
  /\ add_projects = <<>>
  /\ module_info = <<>>
  /\ input_projects = {}
  /\ checked_projects = {}
  /\ projects_to_check = {}
  /\ iteration = 0
  /\ modules = <<>>
  /\ debug_info = <<>>
  /\ split_manifest = None
  /\ debug_written = None
  /\ passes = <<>>

NoInputs ==
  /\ targets = <<>>
  /\ config_files = <<>>
  /\ repo_list = <<>>
  /\ module_info_json = <<>>
  /\ ninja_graph = <<>>
  /\ kati_stamp = {}
  /\ overlays = <<>>
  /\ files = <<>>
  /\ manifest_file = <<>>

\* No call of scan_repo_projects on its own.
NoScan ==
  /\ scanned_path = None
  /\ scanned_project = None

\* No call of get_ninja_inputs on its own.
NoBatch ==
  /\ queried_shards = <<>>
  /\ queried_inputs = None

\* No rbe module.
NoRbe ==
  /\ _RBE_ENV = <<>>
  /\ os_environ = <<>>
  /\ env = None

\* No Config.
NoConfig ==
  /\ config = <<>>
  /\ _build_config_map = None
  /\ build_target = ""
  /\ contexts = None
  /\ build_goals = None

Init ==
  /\ NoInputs
  /\ pc = "start"
  /\ repo_projects = <<>>
  /\ Start
  /\ NoScan
  /\ NoBatch
  /\ NoConfig
  /\ NoRbe

(***************************************************************************)
(* create_split_manifest, statement by statement.                           *)
(***************************************************************************)
Raise(exception) ==
  /\ pc' = "failed"
  /\ raised' = exception

\* The call with its inputs, and lines 427-439: the config files, the
\* project index and the ModuleInfo.
LoadOf(calls) ==
  /\ pc = "start"
  /\ \E call \in calls : CalledWith(call)
  /\ ~ModuleInfoRaises(module_info_json', get_repo_projects(repo_list'))
  /\ remove_projects' = read_configs(config_files', "remove")
  /\ add_projects' = read_configs(config_files', "add")
  /\ repo_projects' = get_repo_projects(repo_list')
  /\ module_info' = ModuleInfo(module_info_json', get_repo_projects(repo_list'))
  /\ pc' = "direct"
  /\ UNCHANGED <<call_vars, raised, input_projects, checked_projects,
                 projects_to_check, iteration, modules, debug_info,
                 split_manifest, debug_written, passes>>

\* Lines 171-174: a module's path is in no known project.
LoadRaisesOf(calls) ==
  /\ pc = "start"
  /\ \E call \in calls : CalledWith(call)
  /\ ModuleInfoRaises(module_info_json', get_repo_projects(repo_list'))
  /\ remove_projects' = read_configs(config_files', "remove")
  /\ add_projects' = read_configs(config_files', "add")
  /\ repo_projects' = get_repo_projects(repo_list')
  /\ Raise("ValueError")
  /\ UNCHANGED <<call_vars, module_info, input_projects, checked_projects,
                 projects_to_check, iteration, modules, debug_info,
                 split_manifest, debug_written, passes>>

\* Lines 441-447: the projects of the targets' ninja inputs.
DirectInputs ==
  /\ pc = "direct"
  /\ LET projects ==
           DOMAIN get_input_projects(repo_projects, get_ninja_inputs(targets))
     IN /\ input_projects' = projects
        /\ debug_info' = debug_set(debug_info, "direct_input",
                                   [project \in projects |-> TRUE])
  /\ pc' = "kati"
  /\ UNCHANGED <<inputs, call_vars, raised, remove_projects, add_projects, repo_projects,
                 module_info, checked_projects, projects_to_check, iteration,
                 modules, split_manifest, debug_written, passes>>

\* subprocess.check_output raises when ninja exits with an error.
DirectInputsFails ==
  /\ pc = "direct"
  /\ targets # <<>>
  /\ Raise("CalledProcessError")
  /\ UNCHANGED <<inputs, call_vars, remove_projects, add_projects, repo_projects,
                 module_info, input_projects, checked_projects,
                 projects_to_check, iteration, modules, debug_info,
                 split_manifest, debug_written, passes>>

\* Lines 449-455: the projects of the product makefiles.
KatiMakefiles ==
  /\ pc = "kati"
  /\ LET kati_makefiles_projects ==
           get_input_projects(repo_projects,
                              get_kati_makefiles(kati_stamp, overlays, files))
     IN /\ debug_info' = debug_set(debug_info, "kati_makefiles",
                                   kati_makefiles_projects)
        /\ input_projects' = input_projects \cup DOMAIN kati_makefiles_projects
  /\ pc' = "manual"
  /\ UNCHANGED <<inputs, call_vars, raised, remove_projects, add_projects, repo_projects,
                 module_info, checked_projects, projects_to_check, iteration,
                 modules, split_manifest, debug_written, passes>>

KatiMakefilesFails ==
  /\ pc = "kati"
  /\ Raise("CalledProcessError")
  /\ UNCHANGED <<inputs, call_vars, remove_projects, add_projects, repo_projects,
                 module_info, input_projects, checked_projects,
                 projects_to_check, iteration, modules, debug_info,
                 split_manifest, debug_written, passes>>

\* Lines 457-475: the manual additions and removals, and the loop's setup.
ManualOverrides ==
  /\ pc = "manual"
  /\ debug_info' =
       debug_set(debug_set(debug_info, "manual_add_configs", add_projects),
                 "manual_remove_configs", remove_projects)
  /\ input_projects' =
       seed_overrides(input_projects, DOMAIN add_projects, DOMAIN remove_projects)
  /\ checked_projects' = {}
  /\ projects_to_check' = to_check(input_projects', {})
  /\ iteration' = 0
  /\ pc' = "loop"
  /\ UNCHANGED <<inputs, call_vars, raised, remove_projects, add_projects, repo_projects,
                 module_info, modules, split_manifest, debug_written, passes>>

\* Lines 477-504: the modules of the projects to check and their
\* HEADER_LIBRARIES dependencies.
PassDeps ==
  /\ pc = "loop"
  /\ projects_to_check # {}
  /\ iteration < MaxPasses
  /\ LET module_set == pass_modules(module_info, projects_to_check)
         additions == deps_additions(module_info, module_set, input_projects)
     IN /\ ~process_deps_raises(module_info, module_set)
        /\ \E module_list \in pass_module_lists(module_info, projects_to_check) :
             modules' = module_list
        /\ debug_info' = debug_set(debug_info, "deps_input",
                                   [project \in additions |-> TRUE])
        /\ input_projects' = with_additions(input_projects, additions)
  /\ iteration' = iteration + 1
  /\ checked_projects' = mark_checked(module_info, checked_projects,
                                      projects_to_check)
  /\ pc' = "adjacent"
  /\ UNCHANGED <<inputs, call_vars, raised, remove_projects, add_projects, repo_projects,
                 module_info, projects_to_check, split_manifest, debug_written,
                 passes>>

\* Line 487: module_project has no entry for a HEADER_LIBRARIES dependency.
PassDepsRaises ==
  /\ pc = "loop"
  /\ projects_to_check # {}
  /\ iteration < MaxPasses
  /\ process_deps_raises(module_info,
                         pass_modules(module_info, projects_to_check))
  /\ iteration' = iteration + 1
  /\ Raise("KeyError")
  /\ UNCHANGED <<inputs, call_vars, remove_projects, add_projects, repo_projects,
                 module_info, input_projects, checked_projects,
                 projects_to_check, modules, debug_info, split_manifest,
                 debug_written, passes>>

\* Lines 506-517: the projects of the modules' ninja inputs.
PassAdjacent ==
  /\ pc = "adjacent"
  /\ LET additions == adjacent_module_additions(repo_projects, modules)
     IN /\ debug_info' = debug_set(debug_info, "adjacent_input",
                                   [project \in additions |-> TRUE])
        /\ input_projects' = with_additions(input_projects, additions)
  /\ projects_to_check' = to_check(input_projects', checked_projects)
  /\ passes' = Append(passes, [frontier |-> projects_to_check,
                               modules |-> modules])
  /\ pc' = "loop"
  /\ UNCHANGED <<inputs, call_vars, raised, remove_projects, add_projects, repo_projects,
                 module_info, checked_projects, iteration, modules,
                 split_manifest, debug_written>>

\* The failed query of a pass had it been caught, and the projects found so
\* far written.
PassAdjacentFailsAndWrites ==
  /\ pc = "adjacent"
  /\ modules # <<>>
  /\ Raise("CalledProcessError")
  /\ split_manifest' = write_split_manifest(manifest_file, input_projects,
                                            DOMAIN remove_projects)
  /\ UNCHANGED <<inputs, call_vars, remove_projects, add_projects, repo_projects,
                 module_info, input_projects, checked_projects,
                 projects_to_check, iteration, modules, debug_info,
                 debug_written, passes>>

\* Line 507: the `ninja -t inputs` call of a pass fails.
PassAdjacentFails ==
  /\ pc = "adjacent"
  /\ modules # <<>>
  /\ Raise("CalledProcessError")
  /\ UNCHANGED <<inputs, call_vars, remove_projects, add_projects, repo_projects,
                 module_info, input_projects, checked_projects,
                 projects_to_check, iteration, modules, debug_info,
                 split_manifest, debug_written, passes>>

\* Lines 519-538: the split manifest and, with --debug-file, the debug info.
WriteManifest ==
  /\ pc = "loop"
  /\ projects_to_check = {}
  /\ split_manifest' = write_split_manifest(manifest_file, input_projects,
                                            DOMAIN remove_projects)
  /\ \E debug_file \in BOOLEAN :
       debug_written' = IF debug_file THEN debug_info ELSE None
  /\ pc' = "done"
  /\ UNCHANGED <<inputs, call_vars, raised, remove_projects, add_projects, repo_projects,
                 module_info, input_projects, checked_projects,
                 projects_to_check, iteration, modules, debug_info, passes>>

Load == LoadOf(Inputs)

LoadRaises == LoadRaisesOf(Inputs)

\* The steps after the call and its loading.
Run ==
  \/ DirectInputs
  \/ DirectInputsFails
  \/ KatiMakefiles
  \/ KatiMakefilesFails
  \/ ManualOverrides
  \/ PassDeps
  \/ PassDepsRaises
  \/ PassAdjacent
  \/ PassAdjacentFails
  \/ WriteManifest

Next ==
  \/ Load
  \/ LoadRaises
  \/ Run

Spec == Init /\ [][Next]_vars

\* The calls whose termination is checked: on the target droid alone, with
\* no manual addition in the default config file, no removal but that of
\* vendor/hdr, no product makefile, and no ninja input without a project
\* index.
LiveInputs ==
  {call \in Inputs :
     /\ "test_mapping" \notin Range(call.targets)
     /\ call.config_files[1].add = {}
     /\ \A i \in 1..Len(call.config_files) :
          call.config_files[i].remove \subseteq {"vendor/hdr"}
     /\ <<"vendor", "hdr", "product.mk">> \notin call.kati_stamp
     /\ call.repo_list = <<>> => \A n \in Nodes : call.ninja_graph[n] = {}}

LiveLoad == LoadOf(LiveInputs)

LiveLoadRaises == LoadRaisesOf(LiveInputs)

LiveNext ==
  \/ LiveLoad
  \/ LiveLoadRaises
  \/ Run

\* The program takes its next step until it returns or raises.
FairSpec == Init /\ [][LiveNext]_vars /\ WF_vars(LiveNext)

\* The cap on the pass counter never stops the loop of the program.
PassesWithinCap ==
  (pc = "loop" /\ projects_to_check # {}) => iteration < MaxPasses

(***************************************************************************)
(* scan_repo_projects on its own: one call on a project index and an input  *)
(* path drawn from bounded sets.                                            *)
(***************************************************************************)
\* The most '/'-delimited segments of an input path.
MaxParts == 4

ScanSegments == {"a", "b", "c", "file", ""}

ScanPaths ==
  UNION {[1..n -> ScanSegments] : n \in 1..MaxParts}

ScanProjectPaths == {<<"a">>, <<"a", "b">>, <<"b">>, <<"a", "b", "c">>}

ScanProjectName(path) ==
  CASE path = <<"a">> -> "platform/a"
    [] path = <<"a", "b">> -> "platform/a/b"
    [] path = <<"b">> -> "platform/b"
    [] OTHER -> "platform/a/b/c"

ScanInit ==
  /\ repo_projects \in
       {[path \in index |-> ScanProjectName(path)] :
          index \in SUBSET ScanProjectPaths}
  /\ scanned_path \in ScanPaths
  /\ scanned_project = None
  /\ pc = "scan"
  /\ NoInputs
  /\ Start
  /\ NoBatch
  /\ NoConfig
  /\ NoRbe

Scan ==
  /\ pc = "scan"
  /\ scanned_project' = scan_repo_projects(repo_projects, scanned_path)
  /\ pc' = "scanned"
  /\ UNCHANGED <<inputs, scanned_path, raised, remove_projects, add_projects,
                 repo_projects, module_info, input_projects, checked_projects,
                 projects_to_check, iteration, modules, debug_info,
                 split_manifest, debug_written, passes, batch_vars,
                 goals_vars, rbe_vars>>

ScanNext == Scan

ScanSpec == ScanInit /\ [][ScanNext]_vars

(***************************************************************************)
(* get_ninja_inputs on its own: one call on a module list of up to          *)
(* MaxShards full shards and one module more.                               *)
(***************************************************************************)
\* The most full shards of a module list.
MaxShards == 2

\* Lengths at and next to the multiples of NINJA_SHARD_LIMIT.
BatchLengths ==
  {n \in {k * NINJA_SHARD_LIMIT + d : k \in 0..MaxShards, d \in {-1, 0, 1, 2}} :
     n >= 0}

\* The list of n modules that is foo everywhere but at one place.
BatchList(n, place, module) ==
  SubSeq([i \in 1..n |-> IF i = place THEN module ELSE "foo"], 1, n)

\* The lists with another module first, last, or at either side of the end
\* of the first shard.
BatchModuleLists ==
  {BatchList(n, place, module) :
     n \in BatchLengths,
     place \in {1, NINJA_SHARD_LIMIT, NINJA_SHARD_LIMIT + 1,
                MaxShards * NINJA_SHARD_LIMIT + 1},
     module \in {"libhdr", "test_mapping"}}

BatchGraphs ==
  {GraphOf({<<"foo", <<"vendor", "hdr", "TEST_MAPPING">> >>,
            <<"foo", <<"vendor", "t", "t.c">> >>,
            <<"libhdr", <<"vendor", "t", "MODULE_LICENSE_GPL">> >>,
            <<"test_mapping", <<"vendor", "x", "x.c">> >>}),
   GraphOf({<<"libhdr", <<"vendor", "t", "t.c">> >>,
            <<"foo", <<"vendor", "hdr", "TEST_MAPPING">> >>}),
   GraphOf({<<"libhdr", <<"vendor", "t", "t.c">> >>})}

BatchInit ==
  /\ modules \in BatchModuleLists
  /\ ninja_graph \in BatchGraphs
  /\ pc = "query"
  /\ targets = <<>>
  /\ config_files = <<>>
  /\ repo_list = <<>>
  /\ module_info_json = <<>>
  /\ kati_stamp = {}
  /\ overlays = <<>>
  /\ files = <<>>
  /\ manifest_file = <<>>
  /\ raised = ""
  /\ remove_projects = <<>>
  /\ add_projects = <<>>
  /\ repo_projects = <<>>
  /\ module_info = <<>>
  /\ input_projects = {}
  /\ checked_projects = {}
  /\ projects_to_check = {}
  /\ iteration = 0
  /\ debug_info = <<>>
  /\ split_manifest = None
  /\ debug_written = None
  /\ passes = <<>>
  /\ NoBatch
  /\ NoScan
  /\ NoConfig
  /\ NoRbe

\* The call get_ninja_inputs(ninja_binary, ninja_build_file, modules).
Query ==
  /\ pc = "query"
  /\ queried_shards' = modules_shards(modules, 0)
  /\ queried_inputs' = get_ninja_inputs(modules)
  /\ pc' = "queried"
  /\ UNCHANGED <<inputs, modules, raised, remove_projects, add_projects,
                 repo_projects, module_info, input_projects, checked_projects,
                 projects_to_check, iteration, debug_info, split_manifest,
                 debug_written, passes, scan_vars, goals_vars, rbe_vars>>

BatchNext == Query

BatchSpec == BatchInit /\ [][BatchNext]_vars

(***************************************************************************)
(* build/sandbox/config.py: Config(config_filename) on a config XML with    *)
(* build_config elements of up to MaxGoals children, then calls of          *)
(* get_build_goals.  An attribute `contexts` is the list of its parts       *)
(* between commas, None when the goal has none; an attribute `name` of a    *)
(* build_config is "" when it has none.                                     *)
(***************************************************************************)
\* The most children of a build_config element.
MaxGoals == 3

\* Element.findall(tag): the children with the tag, in document order.
findall(children, tag) == SelectSeq(children, LAMBDA child : child.tag = tag)

\* Lines 108-115 for the goals from the i-th on: `if goal_contexts` is
\* false of a missing and of an empty attribute, split(',') of the rest.
RECURSIVE goals_from(_, _)
goals_from(goal_list, i) ==
  IF i > Len(goal_list) THEN <<>>
  ELSE LET goal_name == goal_list[i].name
           goal_contexts == goal_list[i].contexts
       IN (IF goal_contexts # None /\ goal_contexts # <<"">>
             THEN IF Range(goal_contexts) # {}
                    THEN << <<goal_name, Range(goal_contexts)>> >>
                    ELSE <<>>
             ELSE << <<goal_name, {}>> >>)
          \o goals_from(goal_list, i + 1)

_get_build_config_goals(build_config) ==
  goals_from(findall(build_config.children, "goal"), 1)

\* The build_config elements of the targets from the i-th on, in document
\* order, each with its name (line 139) and its target's name.
RECURSIVE build_configs_from(_, _)
build_configs_from(root, i) ==
  LET targets_found == findall(root, "target")
  IN IF i > Len(targets_found) THEN <<>>
     ELSE LET target == targets_found[i]
              found == findall(target.children, "build_config")
          IN [k \in 1..Len(found) |->
                [build_config_name |->
                   IF found[k].name # "" THEN found[k].name ELSE target.name,
                 android_target |-> target.name,
                 build_config |-> found[k]]]
             \o build_configs_from(root, i + 1)

\* Line 142: a build_config without a goal.
build_config_map_raises(root) ==
  \E entry \in Range(build_configs_from(root, 1)) :
    _get_build_config_goals(entry.build_config) = <<>>

\* Lines 132-151: a later build_config of the same name replaces an earlier.
_get_build_config_map(root) ==
  LET entries == build_configs_from(root, 1)
  IN [name \in {entries[k].build_config_name : k \in 1..Len(entries)} |->
        LET last == CHOOSE k \in 1..Len(entries) :
                      /\ entries[k].build_config_name = name
                      /\ \A j \in (k + 1)..Len(entries) :
                           entries[j].build_config_name # name
        IN [android_target |-> entries[last].android_target,
            build_goals |-> _get_build_config_goals(entries[last].build_config)]]

\* Lines 187-191 of _get_overlay_map: a config without a target.
overlay_map_raises(root) == findall(root, "target") = <<>>

\* Line 220 of _get_fs_view_map: a target with a view that the config does
\* not define.
fs_view_map_raises(root) ==
  LET views == {view.name : view \in Range(findall(root, "view"))}
  IN \E target \in Range(findall(root, "target")) :
       \E view \in Range(findall(target.children, "view")) :
         view.name \notin views

\* Lines 243-248: what Config(config_filename) raises, "" when nothing.
config_raises(root) ==
  IF build_config_map_raises(root) THEN "ValueError"
  ELSE IF fs_view_map_raises(root) THEN "KeyError"
  ELSE IF overlay_map_raises(root) THEN "ValueError"
  ELSE ""

\* get_build_goals had it asked for every context of the goal.
get_build_goals_of_all_contexts(build_config_map, target, requested) ==
  LET wanted == IF requested = None THEN {} ELSE requested[1]
      goal_list == build_config_map[target].build_goals
  IN [k \in 1..Len(SelectSeq(goal_list,
                             LAMBDA build_goal :
                               build_goal[2] \subseteq wanted)) |->
        SelectSeq(goal_list,
                  LAMBDA build_goal : build_goal[2] \subseteq wanted)[k][1]]

\* Lines 321-340.
get_build_goals(build_config_map, target, requested) ==
  LET wanted == IF requested = None THEN {} ELSE requested[1]
      goal_list == build_config_map[target].build_goals
      chosen ==
        SelectSeq(goal_list,
                  LAMBDA build_goal :
                    IF build_goal[2] # {}
                      THEN wanted \cap build_goal[2] # {}
                      ELSE TRUE)
  IN [k \in 1..Len(chosen) |-> chosen[k][1]]

Goal(name, attribute) == [tag |-> "goal", name |-> name, contexts |-> attribute]

\* The goal elements: without contexts, with contexts="", "ci", "ci,x" and
\* "x,".
GoalElements ==
  {Goal(name, attribute) :
     name \in {"droid", "dist"},
     attribute \in {None, <<"">>, <<"ci">>, <<"ci", "x">>, <<"x", "">>}}

RECURSIVE ListsUpTo(_, _)
ListsUpTo(elements, n) ==
  IF n = 0 THEN {<<>>}
  ELSE LET shorter == ListsUpTo(elements, n - 1)
       IN shorter \cup {Append(list, element) :
                          list \in shorter, element \in elements}

BuildConfig(name, children) ==
  [tag |-> "build_config", name |-> name, children |-> children]

Target(name, children) == [tag |-> "target", name |-> name, children |-> children]

\* A target with an overlay and two build_config elements, then a target
\* whose build_config takes the name of the first target's.
ConfigOfTwoTargets(goals) ==
  << Target("t1", << [tag |-> "overlay", name |-> "o", children |-> <<>>],
                     [tag |-> "view", name |-> "v", children |-> <<>>],
                     BuildConfig("", << Goal("droid", None),
                                        Goal("dist", <<"ci">>) >>),
                     BuildConfig("bt", << Goal("droid", <<"x">>),
                                          [tag |-> "note", name |-> "dist",
                                           contexts |-> None],
                                          Goal("dist", None) >>) >>),
     [tag |-> "view", name |-> "v", children |-> <<>>],
     Target("t2", << BuildConfig("t1", goals) >>) >>

ConfigXmls ==
  {<< Target("t1", <<BuildConfig(name, goals)>>) >> :
     name \in {"", "bt"}, goals \in ListsUpTo(GoalElements, MaxGoals)}
  \cup {ConfigOfTwoTargets(goals) : goals \in ListsUpTo(GoalElements, 1)}
  \cup {<<>>, << Target("t1", <<>>) >>,
        << Target("t1", << [tag |-> "view", name |-> "w", children |-> <<>>],
                           BuildConfig("", <<Goal("droid", None)>>) >>) >>}

\* The sets of contexts asked for, and no argument.
ContextArguments ==
  {None} \cup {<<requested>> : requested \in SUBSET {"ci", "x", "ota"}}

GoalsInit ==
  /\ config \in ConfigXmls
  /\ _build_config_map = None
  /\ build_target = ""
  /\ contexts = None
  /\ build_goals = None
  /\ pc = "config"
  /\ repo_projects = <<>>
  /\ NoInputs
  /\ Start
  /\ NoScan
  /\ NoBatch
  /\ NoRbe

goals_unchanged ==
  <<inputs, scan_vars, batch_vars, rbe_vars, remove_projects, add_projects,
    repo_projects, module_info, input_projects, checked_projects,
    projects_to_check, iteration, modules, debug_info, split_manifest,
    debug_written, passes>>

\* Config.__init__, lines 243-248.
NewConfig ==
  /\ pc = "config"
  /\ config_raises(config) = ""
  /\ _build_config_map' = _get_build_config_map(config)
  /\ pc' = "configured"
  /\ UNCHANGED <<goals_unchanged, raised, config, build_target, contexts,
                 build_goals>>

NewConfigRaises ==
  /\ pc = "config"
  /\ config_raises(config) # ""
  /\ Raise(config_raises(config))
  /\ UNCHANGED <<goals_unchanged, goals_vars>>

\* A call of get_build_goals(build_target, contexts) or
\* get_build_goals(build_target).
GetBuildGoals ==
  /\ pc \in {"configured", "goals"}
  /\ \E target \in DOMAIN _build_config_map, requested \in ContextArguments :
       /\ build_target' = target
       /\ contexts' = requested
       /\ build_goals' = get_build_goals(_build_config_map, target, requested)
  /\ pc' = "goals"
  /\ UNCHANGED <<goals_unchanged, raised, config, _build_config_map>>

\* Line 326 with a build_target the config has no build_config for.
GetBuildGoalsRaises ==
  /\ pc \in {"configured", "goals"}
  /\ \E target \in {"t1", "t2", "bt"} \ DOMAIN _build_config_map,
        requested \in ContextArguments :
       /\ build_target' = target
       /\ contexts' = requested
  /\ Raise("KeyError")
  /\ UNCHANGED <<goals_unchanged, config, _build_config_map, build_goals>>

GoalsNext ==
  \/ NewConfig
  \/ NewConfigRaises
  \/ GetBuildGoals
  \/ GetBuildGoalsRaises

GoalsSpec == GoalsInit /\ [][GoalsNext]_vars

(***************************************************************************)
(* build/sandbox/rbe.py: the import of the module, which draws the two      *)
(* random numbers of the table from 0..MaxRandom, and a call of environ()   *)
(* in a process environment.                                                *)
(***************************************************************************)
\* The largest number random.randint(0, 100000) gives in the model.
MaxRandom == 1

TOOLS_DIR == "prebuilts/remoteexecution-client/latest"

\* Lines 26-41, with the two numbers drawn.
RBE_ENV(server, invocation) ==
  [k \in {<<"USE", "RBE">>, <<"RBE", "HTTP", "PROXY">>, <<"RBE", "DIR">>,
          <<"NINJA", "REMOTE", "NUM", "JOBS">>, <<"FLAG", "log", "dir">>,
          <<"FLAG", "server", "address">>, <<"FLAG", "exec", "root">>,
          <<"FLAG", "invocation", "id">>,
          <<"RBE", "use", "application", "default", "credentials">>,
          <<"RBE", "reproxy", "wait", "seconds">>, <<"RBE", "output", "dir">>,
          <<"RBE", "proxy", "log", "dir">>,
          <<"RBE", "cpp", "dependency", "scanner", "plugin">>,
          <<"RBE", "re", "proxy">>} |->
     CASE k = <<"USE", "RBE">> -> "true"
       [] k = <<"RBE", "HTTP", "PROXY">> -> "10.1.2.1:8011"
       [] k = <<"RBE", "DIR">> -> TOOLS_DIR
       [] k = <<"NINJA", "REMOTE", "NUM", "JOBS">> -> "500"
       [] k = <<"FLAG", "log", "dir">> -> "out"
       [] k = <<"FLAG", "server", "address">> ->
            "unix:///tmp/reproxy_" \o ToString(server) \o ".sock"
       [] k = <<"FLAG", "exec", "root">> -> "/src"
       [] k = <<"FLAG", "invocation", "id">> -> "treble-" \o ToString(invocation)
       [] k = <<"RBE", "use", "application", "default", "credentials">> -> "true"
       [] k = <<"RBE", "reproxy", "wait", "seconds">> -> "20"
       [] k = <<"RBE", "output", "dir">> -> "out"
       [] k = <<"RBE", "proxy", "log", "dir">> -> "out"
       [] k = <<"RBE", "cpp", "dependency", "scanner", "plugin">> ->
            TOOLS_DIR \o "/dependency_scanner_go_plugin.so"
       [] OTHER -> TOOLS_DIR \o "/reproxy"]

\* Lines 51-56: the variables of the environment whose name starts with
\* RBE_ are set over the defaults.
environ(defaults, process_environ) ==
  LET taken == {k \in DOMAIN process_environ : startswith(k, <<"RBE", "">>)}
  IN [k \in DOMAIN defaults \cup taken |->
        IF k \in taken THEN process_environ[k] ELSE defaults[k]]

\* The variables a process environment of the model may define, each with
\* an empty value or the value "set".
EnvironNames ==
  {<<"USE", "RBE">>, <<"NINJA", "REMOTE", "NUM", "JOBS">>,
   <<"FLAG", "log", "dir">>, <<"RBE", "DIR">>, <<"RBE", "output", "dir">>,
   <<"RBE", "instance">>, <<"RBE">>, <<"PATH">>}

Environs ==
  UNION {[names -> {"", "set"}] : names \in SUBSET EnvironNames}

RbeInit ==
  /\ \E server \in 0..MaxRandom, invocation \in 0..MaxRandom :
       _RBE_ENV = RBE_ENV(server, invocation)
  /\ os_environ \in Environs
  /\ env = None
  /\ pc = "rbe"
  /\ repo_projects = <<>>
  /\ NoInputs
  /\ Start
  /\ NoScan
  /\ NoBatch
  /\ NoConfig

\* The call environ().
Environ ==
  /\ pc = "rbe"
  /\ env' = environ(_RBE_ENV, os_environ)
  /\ pc' = "environ"
  /\ UNCHANGED <<inputs, scan_vars, batch_vars, goals_vars, _RBE_ENV,
                 os_environ, raised, remove_projects, add_projects,
                 repo_projects, module_info, input_projects, checked_projects,
                 projects_to_check, iteration, modules, debug_info,
                 split_manifest, debug_written, passes>>

RbeNext == Environ

RbeSpec == RbeInit /\ [][RbeNext]_vars

(***************************************************************************)
(* The properties.                                                          *)
(***************************************************************************)
AddSet == UNION {config_files[i].add : i \in 1..Len(config_files)}
RemoveSet == UNION {config_files[i].remove : i \in 1..Len(config_files)}

ProjectIndex == get_repo_projects(repo_list)

\* The projects of the targets' ninja inputs and of the product makefiles.
DirectProjects ==
  DOMAIN get_input_projects(ProjectIndex, get_ninja_inputs(targets))
MakefileProjects ==
  DOMAIN get_input_projects(ProjectIndex,
                            get_kati_makefiles(kati_stamp, overlays, files))

\* The loop has exited: line 519 is reached or passed.
LoopExited == pc = "done" \/ (pc = "loop" /\ projects_to_check = {})

\* The names of the project elements of a manifest.
ProjectNames(manifest) ==
  {manifest[i].name : i \in {k \in 1..Len(manifest) : manifest[k].tag = "project"}}

Max(a, b) == IF a >= b THEN a ELSE b

RECURSIVE closure_loop(_, _)
closure_loop(retained, checked) ==
  LET frontier == to_check(retained, checked)
      module_set == pass_modules(module_info, frontier)
  IN IF frontier = {} THEN retained
     ELSE IF process_deps_raises(module_info, module_set) THEN {"KeyError"}
     ELSE closure_loop(
            with_additions(
              with_additions(retained,
                             deps_additions(module_info, module_set, retained)),
              adjacent_module_additions(repo_projects, SetToSeq(module_set))),
            mark_checked(module_info, checked, frontier))

\* Lines 468-519 run on a seed.
Engine(seed) == closure_loop(seed \ RemoveSet, {})

\* C2. Idempotence: the engine run again on the final project set F of a
\* run, with the same module graph, ninja graph and remove set, ends with F.
Idempotence ==
  pc = "done" => Engine(input_projects) = input_projects

\* A run that ends with vendor/x and platform/t: the module foo of vendor/x
\* has the input vendor/hdr/TEST_MAPPING and was queried apart from the
\* module test_mapping of platform/t; queried together with it, on the second
\* run, it brings in vendor/hdr.
IdempotenceFailingRun ==
  /\ pc = "done"
  /\ "test_mapping" \notin Range(targets)
  /\ input_projects = {"vendor/x", "platform/t"}
  /\ Engine(input_projects) = {"vendor/x", "vendor/hdr", "platform/t"}

\* The projects one module brings in: the owners of its HEADER_LIBRARIES
\* dependencies and the projects of its own ninja inputs.
module_expansion(module) ==
  {module_info.module_project[d] :
     d \in {h \in header_deps(module_info, module) :
              h \in DOMAIN module_info.module_project}}
  \cup adjacent_module_additions(repo_projects, <<module>>)

\* The least set that contains `retained` and the expansion of every module
\* of its projects.
RECURSIVE least_closed(_)
least_closed(retained) ==
  LET more == UNION {module_expansion(module) :
                       module \in pass_modules(module_info, retained)}
  IN IF more \subseteq retained THEN retained
     ELSE least_closed(retained \cup more)

SeedProjects == (DirectProjects \cup MakefileProjects \cup AddSet) \ RemoveSet

\* C3. Monotonicity: from the first pass to the loop's exit no step takes a
\* project out of the retained set.
Monotonicity ==
  [][(pc \in {"loop", "adjacent"}) => (input_projects \subseteq input_projects')]_vars

\* A second pass has added a project to the retained set.
MonotonicityWitness ==
  /\ pc = "loop"
  /\ iteration = 2
  /\ projects_to_check # {}

\* C4, as claimed. Convergence bound: at the loop's exit the pass counter is
\* at most the number of projects of the index.
ConvergenceBound ==
  LoopExited => iteration <= Cardinality(DOMAIN repo_projects)

\* C4, amended. The pass counter never exceeds the number of projects of the
\* index, or 1 when the index is empty.
ConvergenceBoundNonEmpty ==
  pc \in {"loop", "adjacent", "done"} =>
    iteration <= Max(Cardinality(DOMAIN repo_projects), 1)

\* The loop exits after as many passes as the index has projects.
ConvergenceBoundWitness ==
  /\ LoopExited
  /\ Cardinality(DOMAIN repo_projects) = 3
  /\ iteration = 3

\* C5. Termination: every run reaches the end of create_split_manifest, the
\* loop exited, or ends with an exception.
Termination == <>(pc \in {"done", "failed"})

\* A run that ended after several passes.
TerminationWitness ==
  /\ pc = "done"
  /\ iteration >= 2
  /\ to_check(input_projects, checked_projects) = {}

\* The pass that checked a project: its frontier and module list.
PassOf(project) ==
  passes[CHOOSE i \in 1..Len(passes) : project \in passes[i].frontier]

\* C6. Fixed point at exit: for every module of every retained project the
\* owners of its HEADER_LIBRARIES dependencies are retained, and so is every
\* project that holds one of its ninja inputs, the inputs that the filter of
\* the module's query drops and those under out/ or absolute left aside.
FixedPoint ==
  LoopExited =>
    \A project \in input_projects \cap DOMAIN module_info.project_modules :
      \A module \in module_info.project_modules[project] :
        /\ \A d \in header_deps(module_info, module) :
             /\ d \in DOMAIN module_info.module_project
             /\ module_info.module_project[d] \in input_projects
        /\ \A path \in scanned_inputs(ninja_graph[module]) :
             (/\ input_allowed(path, PassOf(project).modules)
              /\ scan_repo_projects(repo_projects, path) # None)
             => repo_projects[scan_repo_projects(repo_projects, path)]
                  \in input_projects

\* At exit a retained project has a module with a header library in another
\* project and a module with an input in another project.
FixedPointWitness ==
  /\ LoopExited
  /\ \E project \in input_projects \cap DOMAIN module_info.project_modules :
       \E module \in module_info.project_modules[project] :
         /\ \E d \in header_deps(module_info, module) :
              module_info.module_project[d] # project
  /\ \E project \in input_projects \cap DOMAIN module_info.project_modules :
       \E module \in module_info.project_modules[project] :
         adjacent_module_additions(repo_projects, <<module>>) \ {project} # {}

\* C7. Minimality: the final retained set is the least set that contains the
\* seed and is closed under the expansion of each module on its own.
Minimality ==
  pc = "done" => input_projects = least_closed(SeedProjects)

\* A run that retains vendor/hdr only because foo, whose one input in
\* vendor/hdr is a TEST_MAPPING file, was queried in the pass that also
\* queried the module test_mapping.
MinimalityFailingRun ==
  /\ pc = "done"
  /\ "test_mapping" \notin Range(targets)
  /\ input_projects = {"vendor/x", "vendor/hdr", "platform/t"}
  /\ least_closed(SeedProjects) = {"vendor/x", "platform/t"}

\* An input path is a whole-segment prefix chain of '/'-delimited parts;
\* the longest prefix of the path that is a key of the index, or None.
LongestPrefix(index, path) ==
  LET ks == {k \in 1..Len(path) : SubSeq(path, 1, k) \in DOMAIN index}
  IN IF ks = {} THEN None
     ELSE SubSeq(path, 1, CHOOSE k \in ks : \A j \in ks : j <= k)

\* No segment but the last is empty: no leading "/" and no "//".
NoEmptySegment(path) == \A i \in 1..(Len(path) - 1) : path[i] # ""

\* C8, as claimed. Longest-prefix resolution: for every index and every
\* input path the call returns the longest whole-segment prefix of the path
\* that is a key of the index, and None when there is none.
LongestPrefixResolution ==
  pc = "scanned" => scanned_project = LongestPrefix(repo_projects, scanned_path)

\* C8, for the input paths in which no segment but the last is empty: the
\* call returns the longest whole-segment prefix that is a key of the index.
LongestPrefixResolutionNoEmpty ==
  (pc = "scanned" /\ NoEmptySegment(scanned_path)) =>
    scanned_project = LongestPrefix(repo_projects, scanned_path)

\* The absolute path /a/file resolved to the project a, which is no prefix
\* of it.
LongestPrefixFailingCall ==
  /\ pc = "scanned"
  /\ DOMAIN repo_projects = {<<"a">>}
  /\ scanned_path = <<"", "a", "file">>
  /\ scanned_project = <<"a">>

\* Projects a and a/b, and the path a/b/c/file resolved to a/b.
LongestPrefixWitness ==
  /\ pc = "scanned"
  /\ DOMAIN repo_projects = {<<"a">>, <<"a", "b">>}
  /\ scanned_path = <<"a", "b", "c", "file">>
  /\ scanned_project = <<"a", "b">>

\* C9. Seed composition: when the first pass starts the retained set is the
\* projects of the targets' inputs, of the product makefiles and of the add
\* set, less the remove set; no removed project is to be checked.
SeedComposition ==
  (pc = "loop" /\ iteration = 0) =>
    /\ input_projects = SeedProjects
    /\ projects_to_check = SeedProjects
    /\ projects_to_check \cap RemoveSet = {}

\* The first pass starts with all three sources present and a project that
\* is both found and removed.
SeedCompositionWitness ==
  /\ pc = "loop"
  /\ iteration = 0
  /\ DirectProjects # {}
  /\ MakefileProjects # {}
  /\ AddSet \cap RemoveSet # {}
  /\ (DirectProjects \cup MakefileProjects) \cap RemoveSet # {}

\* The inputs of the end-to-end example.
IsEndToEnd ==
  /\ targets = <<"foo">>
  /\ repo_list = RepoList2
  /\ AddSet = {}
  /\ RemoveSet = {}

\* C10. End to end: with the projects vendor/x and vendor/hdr, the target foo
\* with inputs vendor/x/Android.bp and out/tmp and the header library libhdr
\* of vendor/hdr, the final retained set is the two projects, and out/tmp
\* brings in no project.
EndToEnd ==
  (IsEndToEnd /\ pc = "done") =>
    /\ input_projects = {"vendor/x", "vendor/hdr"}
    /\ <<"out", "tmp">> \in ninja_graph["foo"]
    /\ <<"out", "tmp">> \notin scanned_inputs(get_ninja_inputs(targets))

\* The example has run to its end, libhdr found by the first pass.
EndToEndWitness ==
  /\ IsEndToEnd
  /\ pc = "done"
  /\ debug_info["vendor/hdr"].deps_input

(***************************************************************************)
(* The written manifest.                                                    *)
(***************************************************************************)
\* How many of the elements of a list are the element e.
Count(list, e) == Cardinality({i \in 1..Len(list) : list[i] = e})

\* The names update_manifest keeps.
ProjectsToKeep == input_projects \ RemoveSet

\* The written manifest without the two elements appended to it.
WrittenChildren == SubSeq(split_manifest, 1, Len(split_manifest) - 2)

\* C11. Manifest filtering: every top-level project element of the original
\* manifest whose name is retained and not removed is in the written
\* manifest as often as in the original, and every other top-level project
\* element is in it no more.
ManifestFiltering ==
  pc = "done" =>
    \A i \in 1..Len(manifest_file) :
      LET child == manifest_file[i]
      IN child.tag = "project" =>
           Count(WrittenChildren, child) =
             IF child.name \in ProjectsToKeep
               THEN Count(manifest_file, child) ELSE 0

\* A manifest that names a kept project twice and a project that is
\* deleted.
ManifestFilteringWitness ==
  /\ pc = "done"
  /\ manifest_file = ManifestWithDuplicates
  /\ "vendor/x" \in ProjectsToKeep
  /\ "platform/t" \notin ProjectsToKeep
  /\ Count(split_manifest, Project("vendor/x")) = 2

HashElements(manifest) == SelectSeq(manifest, LAMBDA child : child.tag = "hash")

\* The last two elements of the written manifest: the "original" digest is
\* that of the manifest as given, the "self" digest that of all that is
\* written before it, in which no project to delete is left.
DigestsAppended ==
  LET n == Len(split_manifest)
  IN /\ n >= 2
     /\ split_manifest[n - 1] =
          [tag |-> "hash", name |-> "original", value |-> manifest_file]
     /\ split_manifest[n].tag = "hash"
     /\ split_manifest[n].name = "self"
     /\ split_manifest[n].value = SubSeq(split_manifest, 1, n - 1)
     /\ ProjectNames(split_manifest[n].value) \subseteq ProjectsToKeep

\* C12, as claimed. Digest ordering: the "original" digest is computed before
\* any project element is removed, the "self" digest after the filtering,
\* and the written manifest holds exactly these two hash elements.
DigestOrdering ==
  pc = "done" =>
    /\ DigestsAppended
    /\ Len(HashElements(split_manifest)) = 2

\* C12, amended. The same, the two hash elements being the only ones added
\* to those the original manifest holds.
DigestOrderingAdded ==
  pc = "done" =>
    /\ DigestsAppended
    /\ Len(HashElements(split_manifest)) =
         Len(HashElements(manifest_file)) + 2

\* The manifest of an earlier split is split again and loses a project.
DigestOrderingWitness ==
  /\ pc = "done"
  /\ manifest_file = ManifestOfEarlierSplit
  /\ Len(split_manifest) < Len(manifest_file) + 2
  /\ Len(HashElements(split_manifest)) = 4

\* `written` is `original` less some of its top-level project elements whose
\* name is not kept: the elements left are the original's, whole and in
\* their order.
RECURSIVE Frame(_, _)
Frame(original, written) ==
  IF original = <<>> THEN written = <<>>
  ELSE \/ /\ written # <<>>
          /\ Head(original) = Head(written)
          /\ Frame(Tail(original), Tail(written))
       \/ /\ Head(original).tag = "project"
          /\ Head(original).name \notin ProjectsToKeep
          /\ Frame(Tail(original), written)

\* C13. Manifest frame: the written manifest is the original one less
\* top-level project elements with a name that is not kept, followed by two
\* hash elements; every other element is as it was and where it was, and no
\* project element is new.
ManifestFrame ==
  pc = "done" =>
    /\ Len(split_manifest) >= 2
    /\ Frame(manifest_file, WrittenChildren)
    /\ \A i \in {Len(split_manifest) - 1, Len(split_manifest)} :
         split_manifest[i].tag = "hash"

\* The kept project vendor/x is written with the project nested in it, the
\* element remove-project that names vendor/hdr is written, and the project
\* platform/unused is deleted.
ManifestFrameWitness ==
  /\ pc = "done"
  /\ manifest_file = ManifestWithNesting
  /\ "vendor/x" \in ProjectsToKeep
  /\ "vendor/hdr" \notin ProjectsToKeep
  /\ manifest_file[2] \in Range(split_manifest)
  /\ manifest_file[4] \in Range(split_manifest)
  /\ Len(split_manifest) = 5

(***************************************************************************)
(* ModuleInfo                                                               *)
(***************************************************************************)
\* The ModuleInfo has been constructed.
ModuleInfoConstructed ==
  pc \notin {"start", "scan", "scanned"}
  /\ ~(pc = "failed" /\ raised = "ValueError")

\* The module declares a source path that is not under out/.
HasSourcePath(module) ==
  LET path == module_info_json[module].path
  IN /\ path # <<>>
     /\ ~(Len(path[1]) >= 2 /\ path[1][1] = "out")

\* The project the module's first declared source path resolves to, if any.
OwnerPath(module) ==
  scan_repo_projects(repo_projects, module_info_json[module].path[1])

\* The projects that list the module among theirs.
OwnersOf(module) ==
  {project \in DOMAIN module_info.project_modules :
     module \in module_info.project_modules[project]}

\* C14, as claimed. Module ownership integrity: after a successful
\* construction every module of the metadata has an owning project.
ModuleOwnership ==
  ModuleInfoConstructed =>
    \A module \in DOMAIN module_info_json :
      module \in DOMAIN module_info.module_project

\* C14, amended. Every module that declares a source path outside out/ is
\* owned by exactly one project, the one its first path resolves to, or the
\* construction raises ValueError; a module without such a path is owned by
\* no project and raises nothing.
ModuleOwnershipOfSourced ==
  /\ ModuleInfoConstructed =>
       \A module \in DOMAIN module_info_json :
         IF HasSourcePath(module)
           THEN /\ OwnerPath(module) \in DOMAIN repo_projects
                /\ module \in DOMAIN module_info.module_project
                /\ module_info.module_project[module] =
                     repo_projects[OwnerPath(module)]
                /\ OwnersOf(module) = {module_info.module_project[module]}
           ELSE /\ module \notin DOMAIN module_info.module_project
                /\ OwnersOf(module) = {}
  /\ (pc = "failed" /\ raised = "ValueError") =>
       \E module \in DOMAIN module_info_json :
         /\ HasSourcePath(module)
         /\ OwnerPath(module) \notin DOMAIN repo_projects

\* A ModuleInfo with an owned module and a module under out/ that no project
\* owns.
ModuleOwnershipWitness ==
  /\ pc = "direct"
  /\ "foo" \in DOMAIN module_info.module_project
  /\ "libhdr" \in DOMAIN module_info_json
  /\ ~HasSourcePath("libhdr")
  /\ "libhdr" \notin DOMAIN module_info.module_project

(***************************************************************************)
(* Failures                                                                 *)
(***************************************************************************)
\* C15. No partial result: a run that halts on a failed tool query or on a
\* failed ModuleInfo construction has written neither the split manifest
\* nor the debug file, and the split manifest is written only when the loop
\* has exited with nothing left to check.
NoPartialResult ==
  /\ pc = "failed" => (split_manifest = None /\ debug_written = None)
  /\ (split_manifest # None \/ debug_written # None) =>
       /\ pc = "done"
       /\ to_check(input_projects, checked_projects) = {}

\* The query of a second pass fails, projects having been found.
NoPartialResultWitness ==
  /\ pc = "failed"
  /\ raised = "CalledProcessError"
  /\ iteration = 2
  /\ input_projects # {}
  /\ debug_info # <<>>

(***************************************************************************)
(* The filter of get_ninja_inputs                                           *)
(***************************************************************************)
\* The module lists get_ninja_inputs has been called with so far: the
\* targets (line 441) and the modules of each pass (line 507).
Queries ==
  (IF pc \in {"start", "direct", "scan", "scanned"} THEN {} ELSE {targets})
  \cup {passes[i].modules : i \in 1..Len(passes)}

\* The TEST_MAPPING paths among the lines ninja prints for a module list.
TestMappingLines(module_list) ==
  {path \in ninja_shards(module_list, 0) : endswith(path, <<"TEST_MAPPING">>)}

\* C16. TEST_MAPPING filter: in every call of get_ninja_inputs of the run a
\* path that ends in TEST_MAPPING is dropped if and only if the targets of
\* the run do not contain test_mapping.
TestMappingFilter ==
  \A module_list \in Queries :
    \A path \in TestMappingLines(module_list) :
      path \notin get_ninja_inputs(module_list)
        <=> "test_mapping" \notin Range(targets)

\* The targets contain test_mapping and the query of a pass has dropped a
\* TEST_MAPPING path.
TestMappingFilterFailingRun ==
  /\ "test_mapping" \in Range(targets)
  /\ \E i \in 1..Len(passes) :
       \E path \in TestMappingLines(passes[i].modules) :
         path \notin get_ninja_inputs(passes[i].modules)

(***************************************************************************)
(* The shards of get_ninja_inputs                                           *)
(***************************************************************************)
\* The lists of a list of lists, one after the other.
RECURSIVE Flatten(_)
Flatten(lists) ==
  IF lists = <<>> THEN <<>> ELSE Head(lists) \o Flatten(Tail(lists))

\* C17. Batching: a call with n modules makes ceil(n / 20000) ninja calls;
\* each is given at most 20000 modules and at least one, the lists given
\* are, one after the other, the module list, and the result is the union of
\* what ninja prints for each, filtered; for n = 0 no call is made and the
\* result is empty.
Batching ==
  pc = "queried" =>
    LET n == Len(modules)
    IN /\ Len(queried_shards) = (n + 19999) \div 20000
       /\ \A k \in 1..Len(queried_shards) :
            /\ Len(queried_shards[k]) <= 20000
            /\ Len(queried_shards[k]) >= 1
       /\ Flatten(queried_shards) = modules
       /\ queried_inputs =
            {path \in UNION {ninja_inputs_lines(queried_shards[k]) :
                               k \in 1..Len(queried_shards)} :
               input_allowed(path, modules)}
       /\ \A module \in Range(modules) :
            \A path \in ninja_graph[module] :
              input_allowed(path, modules) => path \in queried_inputs
       /\ n = 0 => (queried_shards = <<>> /\ queried_inputs = {})

\* 20001 modules are queried in two calls, the second of the one module
\* libhdr, whose input is in the result.
BatchingWitness ==
  /\ pc = "queried"
  /\ Len(modules) = 20001
  /\ Len(queried_shards) = 2
  /\ queried_shards[2] = <<"libhdr">>
  /\ <<"vendor", "t", "t.c">> \in queried_inputs
  /\ <<"vendor", "t", "t.c">> \notin ninja_graph["foo"]

(***************************************************************************)
(* The product makefiles.                                                   *)
(***************************************************************************)
\* The product makefiles of the stamp file, normalised (lines 277-279).
ProductMakefiles ==
  {normpath(line) :
     line \in {l \in (IF kati_stamp = {} THEN {<<"">>} ELSE kati_stamp) :
                is_product_makefile(l)}}

\* The places a makefile is looked for at: the tree, then the overlays.
SearchRoots == <<(<<"">>)>> \o overlays

\* The places where the makefile is.
LocationsOf(makefile) ==
  {location \in {join_overlay(SearchRoots[i], makefile) :
                   i \in 1..Len(SearchRoots)} : path_exists(files, location)}

\* The first place where the makefile is.
LocationOf(makefile) ==
  join_overlay(
    SearchRoots[CHOOSE i \in 1..Len(SearchRoots) :
                  /\ path_exists(files, join_overlay(SearchRoots[i], makefile))
                  /\ \A j \in 1..(i - 1) :
                       ~path_exists(files, join_overlay(SearchRoots[j], makefile))],
    makefile)

\* The paths a makefile that is somewhere is to bring: its own and, of a
\* symbolic link, that of the file it points to, both without the overlay.
PathsOf(makefile) ==
  {strip_overlay(overlays, LocationOf(makefile))}
    \cup (IF path_islink(files, LocationOf(makefile))
            THEN {strip_overlay(overlays,
                                path_realpath(files, LocationOf(makefile)))}
            ELSE {})

\* Lines 449-453 are passed.
MakefilesResolved == pc \in {"manual", "loop", "adjacent", "done"}

\* The makefile paths that were found in a project.
MakefilePaths ==
  UNION {debug_info[project].kati_makefiles : project \in DOMAIN debug_info}

\* C18. Unresolvable makefile recovery: a product makefile that is neither in
\* the tree nor under an overlay brings no path and does not stop the run:
\* the step of the makefiles can be taken, every path it brings is that of a
\* makefile that is somewhere, and every makefile that is somewhere brings
\* its paths and the projects they are in.
UnresolvableMakefileRecovery ==
  /\ pc = "kati" => ENABLED KatiMakefiles
  /\ MakefilesResolved =>
       /\ MakefilePaths \subseteq
            UNION {PathsOf(makefile) :
                     makefile \in {m \in ProductMakefiles : LocationsOf(m) # {}}}
       /\ \A makefile \in ProductMakefiles :
            LocationsOf(makefile) # {} =>
              \A path \in scanned_inputs(PathsOf(makefile)) :
                LET project_path == scan_repo_projects(repo_projects, path)
                IN project_path # None =>
                     /\ path \in debug_info[repo_projects[project_path]].kati_makefiles
                     /\ repo_projects[project_path] \notin RemoveSet =>
                          repo_projects[project_path] \in input_projects

\* A run that ends with its outputs written although vendor/t/missing.mk is
\* nowhere, with the project of vendor/hdr/product.mk kept.
UnresolvableMakefileRecoveryWitness ==
  /\ pc = "done"
  /\ split_manifest # None
  /\ <<"vendor", "t", "missing.mk">> \in ProductMakefiles
  /\ LocationsOf(<<"vendor", "t", "missing.mk">>) = {}
  /\ overlays # <<>>
  /\ "vendor/hdr" \in input_projects
  /\ <<"vendor", "hdr", "product.mk">> \in MakefilePaths
  /\ "platform/t" \notin input_projects

\* The directories of an overlay root, with or without its last slash.
OverlayRoot(overlay) ==
  IF overlay # <<>> /\ Last(overlay) = ""
    THEN SubSeq(overlay, 1, Len(overlay) - 1) ELSE overlay

\* The path in the tree of a file: under an overlay root, what follows the
\* root.
TreePath(path) ==
  LET roots == {root \in {OverlayRoot(overlays[i]) : i \in 1..Len(overlays)} :
                  /\ Len(path) > Len(root)
                  /\ SubSeq(path, 1, Len(root)) = root}
  IN IF roots = {} THEN path
     ELSE LET root == CHOOSE r \in roots : TRUE
          IN SubSeq(path, Len(root) + 1, Len(path))

\* The path of the project a file is in, None when it is in none.
ProjectAt(path) == LongestPrefix(repo_projects, TreePath(path))

\* The makefile paths found in the project.
MakefilePathsIn(project) ==
  IF project \in DOMAIN debug_info
    THEN debug_info[project].kati_makefiles ELSE {}

\* The product makefiles that are symbolic links, each with the project it
\* is in and the project of the file it points to, where both are known.
SymlinkMakefiles ==
  {link \in
     {[makefile |-> m,
       P |-> ProjectAt(LocationOf(m)),
       Q |-> ProjectAt(path_realpath(files, LocationOf(m)))] :
        m \in {f \in ProductMakefiles :
                 /\ LocationsOf(f) # {}
                 /\ path_islink(files, LocationOf(f))}} :
     link.P # None /\ link.Q # None}

\* Both projects of the link have a makefile path and, unless a config file
\* removes them, are kept.
BothRetained(link) ==
  \A project \in {repo_projects[link.P], repo_projects[link.Q]} :
    /\ MakefilePathsIn(project) # {}
    /\ project \notin RemoveSet => project \in input_projects

\* C19. Symlink makefile: when a product makefile in project P is a symbolic
\* link to a file in project Q, the makefiles found have a path in P and a
\* path in Q, and P and Q are kept.
SymlinkMakefile ==
  MakefilesResolved => \A link \in SymlinkMakefiles : BothRetained(link)

\* C19 where every overlay root is given with its last slash: the property
\* holds.
SymlinkMakefileSlashedOverlays ==
  (/\ MakefilesResolved
   /\ \A i \in 1..Len(overlays) : Last(overlays[i]) = "") =>
    \A link \in SymlinkMakefiles : BothRetained(link)

\* A run with --overlay overlays/o1 ends with neither the project of the
\* link vendor/hdr/link.mk nor that of its target vendor/t/real.mk kept,
\* though no config file removes them.
SymlinkMakefileFailingRun ==
  /\ pc = "done"
  /\ overlays = << <<"overlays", "o1">> >>
  /\ RemoveSet = {}
  /\ \E link \in SymlinkMakefiles :
       /\ link.makefile = <<"vendor", "hdr", "link.mk">>
       /\ repo_projects[link.P] = "vendor/hdr"
       /\ repo_projects[link.Q] = "platform/t"
  /\ "vendor/hdr" \notin input_projects
  /\ "platform/t" \notin input_projects
  /\ MakefilePaths = {}

\* A run with the link in the tree ends with both projects kept.
SymlinkMakefileInTree ==
  /\ pc = "done"
  /\ \E link \in SymlinkMakefiles :
       /\ repo_projects[link.P] = "vendor/hdr"
       /\ repo_projects[link.Q] = "vendor/x"
  /\ {"vendor/hdr", "vendor/x"} \subseteq input_projects

(***************************************************************************)
(* The build goals of a context.                                            *)
(***************************************************************************)
\* The goal elements of the build_config that build_target names: the last
\* of that name in the document.
TargetGoals ==
  LET entries == build_configs_from(config, 1)
      named == {k \in 1..Len(entries) :
                  entries[k].build_config_name = build_target}
      last == CHOOSE k \in named : \A j \in named : j <= k
  IN findall(entries[last].build_config.children, "goal")

\* The contexts asked for.
RequestedContexts == IF contexts = None THEN {} ELSE contexts[1]

\* The goal has no attribute contexts, or an empty one.
ContextFree(goal) == goal.contexts = None \/ goal.contexts = <<"">>

\* The names of the goals, in order.
GoalNames(goals) == [k \in 1..Len(goals) |-> goals[k].name]

\* C20. Build-goal selection by context: get_build_goals(target, contexts)
\* returns, in document order, the names of the goals of the target's
\* build_config that have no contexts or an empty one and of those with a
\* context among the contexts asked for; when none is asked for, the goals
\* without contexts.
BuildGoalSelection ==
  pc = "goals" =>
    /\ build_goals =
         GoalNames(SelectSeq(TargetGoals,
                             LAMBDA goal :
                               \/ ContextFree(goal)
                               \/ Range(goal.contexts) \cap RequestedContexts # {}))
    /\ RequestedContexts = {} =>
         build_goals = GoalNames(SelectSeq(TargetGoals, ContextFree))

\* Asked for x, the goals droid, dist contexts="ci" and dist
\* contexts="ci,x" give droid and dist.
BuildGoalSelectionWitness ==
  /\ pc = "goals"
  /\ contexts = <<{"x"}>>
  /\ TargetGoals = << Goal("droid", None), Goal("droid", <<"ci">>),
                      Goal("dist", <<"ci", "x">>) >>
  /\ build_goals = <<"droid", "dist">>

(***************************************************************************)
(* The passes of the loop.                                                  *)
(***************************************************************************)
\* The frontiers whose header library scan is done: those of the passes
\* that ended and, between the scan and the query of a pass, its own.
ScannedFrontiers ==
  {passes[i].frontier : i \in 1..Len(passes)}
    \cup (IF pc = "adjacent" THEN {projects_to_check} ELSE {})

\* The modules the ModuleInfo gives to a project.
ModulesOwnedBy(project) ==
  {module \in DOMAIN module_info.module_project :
     module_info.module_project[module] = project}

\* C21. Header-library compensation: when a pass ends, and from the end of
\* its scan on, every dependency of class HEADER_LIBRARIES of every module
\* of every project of the pass's frontier has an owning project, and that
\* project is in the retained set.
HeaderLibraryCompensation ==
  (pc \in {"loop", "adjacent", "done"}) =>
    \A frontier \in ScannedFrontiers : \A project \in frontier :
      \A module \in ModulesOwnedBy(project) :
        \A d \in module_info.module_deps[module] :
          (/\ d \in DOMAIN module_info.module_class
           /\ module_info.module_class[d] = "HEADER_LIBRARIES") =>
            /\ d \in DOMAIN module_info.module_project
            /\ module_info.module_project[d] \in input_projects

\* The first pass has ended: foo of vendor/x, in its frontier, depends on
\* the header library libhdr, and the scan has added libhdr's vendor/hdr,
\* which no input is in.
HeaderLibraryCompensationWitness ==
  /\ pc = "loop"
  /\ Len(passes) = 1
  /\ "vendor/x" \in passes[1].frontier
  /\ "foo" \in ModulesOwnedBy("vendor/x")
  /\ "libhdr" \in module_info.module_deps["foo"]
  /\ module_info.module_class["libhdr"] = "HEADER_LIBRARIES"
  /\ "vendor/hdr" \notin passes[1].frontier
  /\ "vendor/hdr" \in projects_to_check
  /\ debug_info["vendor/hdr"].deps_input
  /\ ~debug_info["vendor/hdr"].adjacent_input

\* C22. No influence of removed projects: no project of the remove set is
\* in the frontier of a pass, so the modules of a removed project are never
\* expanded and bring no project in.
NoInfluenceOfRemoved ==
  /\ \A i \in 1..Len(passes) : passes[i].frontier \cap RemoveSet = {}
  /\ (pc \in {"loop", "adjacent"}) => projects_to_check \cap RemoveSet = {}

\* The least set that contains `retained` and the expansion of every module
\* of its projects that are not removed.
RECURSIVE least_closed_without_removed(_)
least_closed_without_removed(retained) ==
  LET more == UNION {module_expansion(module) :
                       module \in pass_modules(module_info, retained \ RemoveSet)}
  IN IF more \subseteq retained THEN retained
     ELSE least_closed_without_removed(retained \cup more)

\* A run that removes vendor/hdr: the first pass adds it again as the owner
\* of libhdr, a header library of foo, the second pass has it as its
\* frontier and queries libhdr, whose input vendor/t/t.c adds platform/t;
\* platform/t, which nothing but the removed project leads to, is written
\* to the split manifest.
NoInfluenceOfRemovedFailingRun ==
  /\ pc = "done"
  /\ RemoveSet = {"vendor/hdr"}
  /\ Len(passes) = 3
  /\ passes[2].frontier = {"vendor/hdr"}
  /\ passes[2].modules = <<"libhdr">>
  /\ "platform/t" \in input_projects
  /\ "platform/t" \notin least_closed_without_removed(SeedProjects)
  /\ "platform/t" \in ProjectNames(split_manifest)
  /\ "vendor/hdr" \notin ProjectNames(split_manifest)

(***************************************************************************)
(* The overlays.                                                            *)
(***************************************************************************)
\* The makefile is found, and its path without the overlay is its path in
\* the tree, is in the result and is recorded for the project that the path
\* in the tree is in.
ResolvedInTree(makefile) ==
  LET path == TreePath(LocationOf(makefile))
      project_path == LongestPrefix(repo_projects, path)
  IN /\ strip_overlay(overlays, LocationOf(makefile)) = path
     /\ path \in get_kati_makefiles(kati_stamp, overlays, files)
     /\ project_path # None =>
          path \in MakefilePathsIn(repo_projects[project_path])

\* C23. Overlay resolution: a product makefile is looked for in the tree
\* and then under each overlay root in order; of the first place where it
\* is, the path without the overlay prefix is added, which is the
\* makefile's path in the tree and is found in the project of that path,
\* whatever the overlay root strings are.
OverlayResolution ==
  MakefilesResolved =>
    \A makefile \in {m \in ProductMakefiles : LocationsOf(m) # {}} :
      ResolvedInTree(makefile)

\* C23 where every overlay root is given with its last slash: the property
\* holds.
OverlayResolutionSlashedRoots ==
  (/\ MakefilesResolved
   /\ \A i \in 1..Len(overlays) : Last(overlays[i]) = "") =>
    \A makefile \in {m \in ProductMakefiles : LocationsOf(m) # {}} :
      ResolvedInTree(makefile)

\* A run with --overlay overlays/o1: vendor/hdr/link.mk is found under the
\* overlay, the path added for it is /vendor/hdr/link.mk, and no project is
\* found for it.
OverlayResolutionFailingRun ==
  /\ pc = "done"
  /\ overlays = << <<"overlays", "o1">> >>
  /\ kati_stamp = {<<"prebuilts", "bin", "ckati">>, <<"vendor", "hdr", "link.mk">>}
  /\ LocationOf(<<"vendor", "hdr", "link.mk">>)
       = <<"overlays", "o1", "vendor", "hdr", "link.mk">>
  /\ strip_overlay(overlays, LocationOf(<<"vendor", "hdr", "link.mk">>))
       = <<"", "vendor", "hdr", "link.mk">>
  /\ <<"", "vendor", "hdr", "link.mk">>
       \in get_kati_makefiles(kati_stamp, overlays, files)
  /\ LongestPrefix(repo_projects, <<"vendor", "hdr", "link.mk">>) = PH
  /\ MakefilePathsIn("vendor/hdr") = {}

\* A run with --overlay overlays/o0/ --overlay overlays/o1/ finds the
\* makefile under the second root and records vendor/hdr/link.mk for the
\* project vendor/hdr.
OverlayResolutionSecondRoot ==
  /\ pc = "done"
  /\ Len(overlays) = 2
  /\ LocationOf(<<"vendor", "hdr", "link.mk">>)
       = <<"overlays", "o1", "vendor", "hdr", "link.mk">>
  /\ <<"vendor", "hdr", "link.mk">> \in MakefilePathsIn("vendor/hdr")

(***************************************************************************)
(* The debug records.                                                       *)
(***************************************************************************)
\* The record `after` of a project keeps what the record `before` holds.
RecordKept(before, after) ==
  /\ before.direct_input => after.direct_input
  /\ before.adjacent_input => after.adjacent_input
  /\ before.deps_input => after.deps_input
  /\ before.kati_makefiles \subseteq after.kati_makefiles
  /\ \A i \in 1..Len(before.manual_add_configs) :
       /\ i <= Len(after.manual_add_configs)
       /\ after.manual_add_configs[i] = before.manual_add_configs[i]
  /\ \A i \in 1..Len(before.manual_remove_configs) :
       /\ i <= Len(after.manual_remove_configs)
       /\ after.manual_remove_configs[i] = before.manual_remove_configs[i]

\* C24. Debug records are additive: no step of a run deletes the record of
\* a project, turns a flag that is true to false, or removes an entry of
\* the makefile list or of an override-file list of a record.
DebugRecordsAdditive ==
  [][\A project \in DOMAIN debug_info :
       /\ project \in DOMAIN debug_info'
       /\ RecordKept(debug_info[project], debug_info'[project])]_vars

\* The record of vendor/hdr at the end of a run: a direct input and the
\* project of a makefile, found again by a pass, and removed by a config
\* file.
DebugRecordsAdditiveWitness ==
  /\ pc = "done"
  /\ "vendor/hdr" \in DOMAIN debug_info
  /\ debug_info["vendor/hdr"].direct_input
  /\ debug_info["vendor/hdr"].kati_makefiles # {}
  /\ debug_info["vendor/hdr"].manual_remove_configs # <<>>
  /\ debug_info["vendor/hdr"].deps_input
  /\ debug_written = debug_info

(***************************************************************************)
(* The RBE environment.                                                     *)
(***************************************************************************)
\* C25. RBE environment precedence: for every variable of the table of
\* defaults, environ() returns the value the process environment defines
\* when it defines the variable, and the default otherwise.
RbeEnvironmentPrecedence ==
  pc = "environ" =>
    \A k \in DOMAIN _RBE_ENV :
      /\ k \in DOMAIN env
      /\ env[k] = IF k \in DOMAIN os_environ THEN os_environ[k] ELSE _RBE_ENV[k]

\* C25 for the variables of the table whose name starts with RBE_, and the
\* default for all others: the property holds.
RbeEnvironmentPrecedenceOfRBE ==
  pc = "environ" =>
    \A k \in DOMAIN _RBE_ENV :
      /\ k \in DOMAIN env
      /\ env[k] = IF k \in DOMAIN os_environ /\ k[1] = "RBE" /\ Len(k) > 1
                    THEN os_environ[k] ELSE _RBE_ENV[k]

\* With USE_RBE=set and RBE_DIR=set in the environment, environ() returns
\* RBE_DIR=set and USE_RBE=true.
RbeEnvironmentFailingCall ==
  /\ pc = "environ"
  /\ <<"USE", "RBE">> \in DOMAIN os_environ
  /\ os_environ[<<"USE", "RBE">>] = "set"
  /\ env[<<"USE", "RBE">>] = "true"
  /\ <<"RBE", "DIR">> \in DOMAIN os_environ
  /\ os_environ[<<"RBE", "DIR">>] = "set"
  /\ env[<<"RBE", "DIR">>] = "set"

(***************************************************************************)
(* The passes and the checked projects.                                     *)
(***************************************************************************)
\* C26. Single expansion: between passes the checked projects are retained
\* and are those of the frontiers so far, the frontier of a pass has no
\* project of an earlier frontier, no module is in the module list of two
\* passes, and at the loop's exit the checked projects are the retained
\* ones.
SingleExpansion ==
  (pc \in {"loop", "done"}) =>
    /\ checked_projects \subseteq input_projects
    /\ checked_projects = UNION {passes[i].frontier : i \in 1..Len(passes)}
    /\ projects_to_check \cap checked_projects = {}
    /\ \A i \in 1..Len(passes) : \A j \in (i + 1)..Len(passes) :
         /\ passes[i].frontier \cap passes[j].frontier = {}
         /\ Range(passes[i].modules) \cap Range(passes[j].modules) = {}
    /\ LoopExited => checked_projects = input_projects

\* A run of three passes that each query a module.
SingleExpansionWitness ==
  /\ pc = "done"
  /\ Len(passes) = 3
  /\ \A i \in 1..3 : passes[i].modules # <<>>
  /\ Cardinality(checked_projects) = 3

\* The record tells why the project is retained.
HasProvenance(record) ==
  \/ record.direct_input
  \/ record.adjacent_input
  \/ record.deps_input
  \/ record.kati_makefiles # {}
  \/ record.manual_add_configs # <<>>

\* C27. Provenance completeness: at the loop's exit every retained project
\* has a debug record, and in it a flag is true or the list of makefiles or
\* of adding config files is not empty.
ProvenanceComplete ==
  LoopExited =>
    \A project \in input_projects :
      /\ project \in DOMAIN debug_info
      /\ HasProvenance(debug_info[project])

\* A run ends with four retained projects, each for one reason only: a
\* direct input, a header library, an adjacent input and a config file.
ProvenanceCompleteWitness ==
  /\ pc = "done"
  /\ \E direct, deps, adjacent, added \in input_projects :
       /\ debug_info[direct] = [DebugInfo EXCEPT !.direct_input = TRUE]
       /\ debug_info[deps] = [DebugInfo EXCEPT !.deps_input = TRUE]
       /\ debug_info[adjacent] = [DebugInfo EXCEPT !.adjacent_input = TRUE]
       /\ debug_info[added].manual_add_configs # <<>>
       /\ ~debug_info[added].direct_input
       /\ ~debug_info[added].adjacent_input
       /\ ~debug_info[added].deps_input

(***************************************************************************)
(* The owner of a header library.                                           *)
(***************************************************************************)
\* C28. Header-library owner lookup never fails: after the ModuleInfo is
\* constructed, the loop raises no KeyError at the lookup of the project of
\* a HEADER_LIBRARIES dependency: every such dependency of a module of a
\* frontier has an entry in module_project.
HeaderOwnerLookupNeverFails ==
  /\ ~(pc = "failed" /\ raised = "KeyError")
  /\ (pc = "loop") =>
       \A module \in pass_modules(module_info, projects_to_check) :
         \A d \in module_info.module_deps[module] :
           (/\ d \in DOMAIN module_info.module_class
            /\ module_info.module_class[d] = "HEADER_LIBRARIES") =>
             d \in DOMAIN module_info.module_project

\* The ModuleInfo is constructed with the header library libhdr, whose path
\* is under out/, in no project; the first pass expands foo, which depends
\* on libhdr, and raises KeyError.
HeaderOwnerLookupFailingRun ==
  /\ pc = "failed"
  /\ raised = "KeyError"
  /\ iteration = 1
  /\ "foo" \in pass_modules(module_info, projects_to_check)
  /\ "libhdr" \in module_info.module_deps["foo"]
  /\ module_info.module_class["libhdr"] = "HEADER_LIBRARIES"
  /\ module_info_json["libhdr"].path = << <<"out", "soong", "gen">> >>
  /\ "libhdr" \notin DOMAIN module_info.module_project
  /\ split_manifest = None

(***************************************************************************)
(* The digests of the written manifest.                                     *)
(***************************************************************************)
\* C29. Self-digest coverage: the written manifest ends with the "original"
\* element and, after it, the "self" element; the digest of the "self"
\* element is that of the whole written tree but the "self" element, so it
\* covers the kept project elements and the "original" element, whose
\* digest is that of the manifest as read.
SelfDigestCoverage ==
  pc = "done" =>
    LET n == Len(split_manifest)
        self == split_manifest[n]
        original == split_manifest[n - 1]
        covered == SubSeq(split_manifest, 1, n - 1)
    IN /\ n >= 2
       /\ self.tag = "hash" /\ self.name = "self"
       /\ original.tag = "hash" /\ original.name = "original"
       /\ original.value = manifest_file
       /\ self.value = covered
       /\ covered[n - 1] = original
       /\ ProjectNames(covered) = ProjectNames(manifest_file) \cap ProjectsToKeep
       /\ \A i \in 1..(n - 1) : covered[i] # self

\* A manifest of four projects is written with two of them: the "self"
\* digest is that of the remote element, the two projects and the
\* "original" element, and differs from the "original" digest.
SelfDigestCoverageWitness ==
  /\ pc = "done"
  /\ manifest_file = Manifest
  /\ Len(split_manifest) = 5
  /\ split_manifest[5].value = SubSeq(split_manifest, 1, 4)
  /\ split_manifest[4].value = Manifest
  /\ ProjectNames(split_manifest[5].value) = {"vendor/x", "vendor/hdr"}

(***************************************************************************)
(* The order of iteration.                                                  *)
(***************************************************************************)
\* C30. Order independence: whatever the order in which the projects to
\* check and their modules are iterated, a pass adds the same projects as
\* with every other order, and the run ends with the retained set and the
\* written project elements that the inputs determine: the closure of the
\* seed (direct, makefile and added projects less the removed ones) computed
\* in one fixed order.
OrderIndependence ==
  /\ pc = "adjacent" =>
       \A module_list \in pass_module_lists(module_info, projects_to_check) :
         /\ Range(module_list) = Range(modules)
         /\ adjacent_module_additions(repo_projects, module_list)
              = adjacent_module_additions(repo_projects, modules)
  /\ pc = "done" =>
       /\ input_projects = closure_loop(SeedProjects, {})
       /\ ProjectNames(split_manifest)
            = ProjectNames(update_manifest(manifest_file,
                                           closure_loop(SeedProjects, {}),
                                           RemoveSet))

\* A run has ended whose pass over two projects listed two modules, the
\* module test_mapping last and not in the order of the reference, and the
\* ninja lines of the pass held a TEST_MAPPING path that was kept.
OrderIndependenceWitness ==
  /\ pc = "done"
  /\ \E i \in 1..Len(passes) :
       /\ Cardinality(passes[i].frontier) >= 2
       /\ Len(passes[i].modules) >= 2
       /\ passes[i].modules # SetToSeq(Range(passes[i].modules))
       /\ passes[i].modules[Len(passes[i].modules)] = "test_mapping"
       /\ TestMappingLines(passes[i].modules) \cap get_ninja_inputs(passes[i].modules) # {}

====
